---- MODULE Spec2Model ----
(***************************************************************************)
(* Verification model of the subnet node runtime:                          *)
(*   - the per-epoch consensus loop (mesh/subnet/consensus/consensus.py),  *)
(*   - the task commit-reveal engine (mesh/subnet/consensus/task.py),      *)
(*   - the commit-reveal predicate validator                               *)
(*     (mesh/subnet/utils/mock_commit_reveal.py),                          *)
(*   - the signature / proof-of-stake request authorizers                  *)
(*     (mesh/utils/authorizers/auth.py, pos_auth.py).                      *)
(*                                                                         *)
(* Three specifications share the module:                                  *)
(*   Spec      the consensus process of one node against the chain, the    *)
(*             DHT and the wall clock;                                     *)
(*   PredSpec  one predicate-validator instance receiving GET/POST;        *)
(*   AuthSpec  one authorizer receiving (possibly concurrent) requests.    *)
(*                                                                         *)
(* Time is the block height (block = floor(now / BLOCK_SECS)); the subnet  *)
(* epoch and percent_complete are derived from it exactly as the chain     *)
(* clients derive them.  percent_complete is kept in percentage points.    *)
(***************************************************************************)
EXTENDS Integers, Sequences, FiniteSets, TLC

VARIABLES
    \* ---- wall clock ----
    block,                \* current block height
    \* ---- Consensus process (consensus.py) ----
    pc,                   \* position of the consensus coroutine
    ret,                  \* position to resume at after a sleep
    wake,                 \* block height at which the pending sleep ends
    stop,                 \* Consensus.stop (mp.Event)
    started,              \* run_forever local `started`
    last_epoch,           \* run_forever local `last_epoch` (-1 is None)
    cur,                  \* run_forever local `current_epoch`
    epoch_scores,         \* Consensus.epoch_scores: epoch -> Option(list)
    consensus_data,       \* run_consensus local `consensus_data` (Option)
    \* ---- TaskCommitReveal (task.py) ----
    latest_task_commit,   \* Option([target_epoch, salt, bytes])
    latest_scores_commit, \* epoch -> Option([salt, bytes])
    \* ---- DHT records stored under this node's public key ----
    dht,                  \* family -> Option(value), keys of the current epoch
    tracker,              \* predicate validator: _peer_store_tracker
    \* ---- blockchain ----
    chainValidator,       \* elected subnet_node_id of the current epoch (0 is None)
    chainConsensus,       \* Option(ConsensusData) of the current epoch
    \* ---- history of what the node did (observation only) ----
    doneEpoch,            \* epoch the set `done` refers to
    done,                 \* engine actions executed for doneEpoch
    lastAct,              \* last executed engine action [epoch, phase, nth]
    lastAttest,           \* Option: the last attest call [epoch, my, theirs, n]
    lastPropose,          \* Option: the last propose call [epoch, existed, n]
    rc_exit,              \* how the last run_consensus ended
    verdict,              \* last verdict of verify_and_score_peers on own reveal
    raises,               \* exceptions caught by run_forever so far
    \* ---- predicate validator under test (PredSpec) ----
    accepted,             \* POSTs accepted in the current epoch per [key type, peer]
    lastPost,             \* Option: the last request and its verdict
    \* ---- authorizer under test (AuthSpec) ----
    now,                  \* get_dht_time() in seconds
    recent_nonces,        \* SignatureAuthorizer._recent_nonces: nonce -> expiration
    inflight,             \* validate_request coroutines: slot -> record
    running,              \* coroutine holding the event loop (0: none)
    pos_cache,            \* authorizer kind and the ProofOfStake caches
    authLog,              \* accepted nonces: [at: nonce -> time, gap: Option]
    rpc,                  \* a call through an RPC wrapper
    swarm,                \* records kept by the DHT nodes, and the last store
    boot,                 \* the process before run_forever, its chain record, its parent
    server,               \* Server (server.py): its announcer and heartbeat threads
    vsr,                  \* a call of verify_score_reveals: its inputs and result
    agg,                  \* score aggregation of verify_and_score_peers
    jac,                  \* a call of compare_consensus_data: its inputs and result
    limiter               \* RateLimitAuthorizer (limiter.py)

clockVars == <<block>>
nodeVars  == <<pc, ret, wake, stop, started, last_epoch, cur, epoch_scores,
               consensus_data>>
taskVars  == <<latest_task_commit, latest_scores_commit>>
dhtVars   == <<dht, tracker>>
chainVars == <<chainValidator, chainConsensus>>
histVars  == <<doneEpoch, done, lastAct, lastAttest, lastPropose, rc_exit, verdict,
               raises>>
predVars  == <<accepted, lastPost>>
authVars  == <<now, recent_nonces, inflight, running, pos_cache, authLog>>
wrapVars  == <<rpc>>
sigVars   == <<swarm>>
bootVars  == <<boot>>
srvVars   == <<server>>
vsrVars   == <<vsr>>
aggVars   == <<agg>>
jacVars   == <<jac>>
limVars   == <<limiter>>

vars == <<clockVars, nodeVars, taskVars, dhtVars, chainVars, histVars,
          predVars, authVars,
                   wrapVars, sigVars, bootVars, srvVars, vsrVars, aggVars, jacVars, limVars>>

----------------------------------------------------------------------------
(* Option values: None is the empty sequence, Some(x) a one-element one.   *)
None == <<>>
Some(x) == <<x>>
IsNone(o) == o = <<>>
Get(o) == o[1]

----------------------------------------------------------------------------
(* Bounds of the model.                                                    *)
MaxBlock == 47          \* the clock stops ticking at this height
StartBlock == 20        \* block height at which the process starts
MaxSalt == 2            \* salts are drawn from 1..MaxSalt
MaxRaises == 1          \* failures of the network or the chain client in a run
PredStart == 23         \* block height at which the predicate validator is created
AuthStart == 600        \* get_dht_time() when the authorizer is created
AuthStep == 60          \* seconds between two readings of the clock
MaxElapsed == 300       \* the clock stops this long after AuthStart
MaxKeys == 2            \* key pairs: 1 the owner's, the others not
MaxSigs == 2            \* signature tags in one value
MaxList == 2            \* entries in one list of consensus data
MaxProvers == 2         \* peers scored in one round of tasks
MaxBeats == 4           \* heartbeat records published by one server
MaxLimTicks == 1        \* seconds the limiter's clock runs on after a start or a leap
MaxViolations == 13     \* violations counted for one peer
MaxChunks == 3          \* responses of one streamed RPC
MaxNonce == 2           \* nonces are drawn from 1..MaxNonce

(* Program constants.                                                      *)
BLOCK_SECS == 6
EPOCH_LENGTH == 300
EpochLen == 20
Slot == 3
VERIFIER_COMMIT_DEADLINE == 50
VERIFIER_REVEAL_DEADLINE == 60
SCORES_REVEAL_DEADLINE == 60
(* An attestor that polls as long as task commits are accepted.            *)
ATTEST_DEADLINE_commit == VERIFIER_COMMIT_DEADLINE

ATTEST_DEADLINE == 15
MAX_EPOCH_HISTORY == 5
MAX_HEART_BEAT_TIME == (BLOCK_SECS * EPOCH_LENGTH * 11) \div 10
MAX_COMMIT_TIME == BLOCK_SECS * EPOCH_LENGTH * 5
MAX_REVEAL_TIME == BLOCK_SECS * EPOCH_LENGTH * 5

SelfId == 1             \* subnet_node_id (and peer) of the node under study
OtherId == 6            \* another subnet node
NodeIds == {SelfId, OtherId}

----------------------------------------------------------------------------
(* Epoch clock: get_subnet_epoch_data(slot).                               *)
SubnetEpoch(b) == (b - Slot) \div EpochLen
blocks_elapsed(b) == (b - Slot) % EpochLen
blocks_remaining(b) == EpochLen - blocks_elapsed(b)
percent_complete(b) == (blocks_elapsed(b) * 100) \div EpochLen
get_dht_time(b) == b * BLOCK_SECS

MaxEpoch == SubnetEpoch(MaxBlock) + 1
Epochs == 0..MaxEpoch

----------------------------------------------------------------------------
(* DHT keys.  DHTID.generate hashes the source string; distinct source     *)
(* strings give distinct identifiers, so a key is its family and epoch.    *)
Families == {"verifier_commit", "verifier_reveal", "scores_reveal", "scores_commit"}
KeyTypes == Families \cup {"node"}
Key(f, e) == [family |-> f, epoch |-> e]
get_verifier_commit_key(e) == Key("verifier_commit", e)
get_verifier_reveal_key(e) == Key("verifier_reveal", e)
get_scores_commit_key(e) == Key("scores_commit", e)
get_scores_reveal_key(e) == Key("scores_reveal", e)
NodeKey == Key("node", 0)

(* SHA-256(salt || bytes): collision free, so the digest is the pair.      *)
Digest(salt, bytes) == <<salt, bytes>>

----------------------------------------------------------------------------
(* MockHypertensorCommitReveal                                             *)
per_peer_epoch_limits(key_type) == IF key_type = "node" THEN 100 ELSE 1

(* A whitelist that takes a family key of any epoch.                       *)
_get_key_type_any_epoch(key, current_epoch) ==
    IF key.family = "node" THEN "node"
    ELSE IF key.family \in Families THEN key.family
    ELSE "None"

_get_key_type(key, current_epoch) ==
    IF key.family = "node" THEN "node"
    ELSE IF key.family \in Families /\ key.epoch = current_epoch THEN key.family
    ELSE "None"

(* A quota test that lets one record too many through.                     *)
_has_exceeded_store_limit_late(trk, peer, key_type, epoch) ==
    (IF <<epoch, key_type, peer>> \in DOMAIN trk THEN trk[<<epoch, key_type, peer>>] ELSE 0)
        > per_peer_epoch_limits(key_type)

(* _peer_store_tracker[epoch][key_type][peer_id], a defaultdict of int: a  *)
(* missing entry counts 0.                                                 *)
_has_exceeded_store_limit(trk, peer, key_type, epoch) ==
    (IF <<epoch, key_type, peer>> \in DOMAIN trk THEN trk[<<epoch, key_type, peer>>] ELSE 0)
        >= per_peer_epoch_limits(key_type)

_record_peer_store(trk, peer, key_type, epoch) ==
    [k \in DOMAIN trk \cup {<<epoch, key_type, peer>>} |->
        IF k = <<epoch, key_type, peer>>
        THEN (IF k \in DOMAIN trk THEN trk[k] ELSE 0) + 1
        ELSE trk[k]]

_cleanup_old_epochs(trk, current_epoch) ==
    [k \in {j \in DOMAIN trk : ~(j[1] < current_epoch - MAX_EPOCH_HISTORY)} |-> trk[k]]

(* Deadline tests that close the commit window one step early.             *)
InWindowEarlyClose(key_type, p) ==
    CASE key_type = "node" -> TRUE
      [] key_type = "verifier_commit" -> ~(p >= VERIFIER_COMMIT_DEADLINE)
      [] key_type = "verifier_reveal" ->
            ~(p <= VERIFIER_COMMIT_DEADLINE \/ p > VERIFIER_REVEAL_DEADLINE)
      [] key_type = "scores_reveal" ->
            ~(p <= VERIFIER_COMMIT_DEADLINE \/ p > SCORES_REVEAL_DEADLINE)
      [] key_type = "scores_commit" -> ~(p <= SCORES_REVEAL_DEADLINE)

(* The deadline and expiration tests of __call__ for a known key type.     *)
InWindow(key_type, p) ==
    CASE key_type = "node" -> TRUE
      [] key_type = "verifier_commit" -> ~(p > VERIFIER_COMMIT_DEADLINE)
      [] key_type = "verifier_reveal" ->
            ~(p <= VERIFIER_COMMIT_DEADLINE \/ p > VERIFIER_REVEAL_DEADLINE)
      [] key_type = "scores_reveal" ->
            ~(p <= VERIFIER_COMMIT_DEADLINE \/ p > SCORES_REVEAL_DEADLINE)
      [] key_type = "scores_commit" -> ~(p <= SCORES_REVEAL_DEADLINE)

MaxExpiration(key_type) ==
    CASE key_type = "node" -> MAX_HEART_BEAT_TIME
      [] key_type \in {"verifier_commit", "scores_commit"} -> MAX_COMMIT_TIME
      [] key_type \in {"verifier_reveal", "scores_reveal"} -> MAX_REVEAL_TIME

(* __call__ for a POST: the verdict.  has_subkey is false when the record  *)
(* carries no public key from which the caller can be extracted.           *)
PredicatePost(trk, key, has_subkey, peer, expiration_time, b) ==
    LET current_epoch == SubnetEpoch(b)
        p == percent_complete(b)
        t == _cleanup_old_epochs(trk, current_epoch)
        key_type == _get_key_type(key, current_epoch)
    IN  /\ has_subkey
        /\ key_type # "None"
        /\ ~_has_exceeded_store_limit(t, peer, key_type, current_epoch)
        /\ InWindow(key_type, p)
        /\ ~(expiration_time > get_dht_time(b) + MaxExpiration(key_type))

(* __call__ for a POST: the tracker it leaves behind.                      *)
PredicateTracker(trk, key, has_subkey, peer, expiration_time, b) ==
    LET current_epoch == SubnetEpoch(b)
        t == _cleanup_old_epochs(trk, current_epoch)
    IN  IF ~has_subkey THEN trk
        ELSE IF PredicatePost(trk, key, has_subkey, peer, expiration_time, b)
             THEN _record_peer_store(t, peer, _get_key_type(key, current_epoch),
                                     current_epoch)
             ELSE t

----------------------------------------------------------------------------
(* Scores.  A score list is a sequence of SubnetNodeConsensusData; the     *)
(* fixed-point unit 10^18 is written ScoreOne.                             *)
ScoreOne == 1
Entry(id) == [subnet_node_id |-> id, score |-> ScoreOne]
ScoreLists == {<<>>, <<Entry(SelfId)>>, <<Entry(SelfId), Entry(OtherId)>>}
Salts == 1..MaxSalt
TaskBytes == <<"pickle", "evals">>       \* pickle.dumps(evals_data)
Pickle(x) == <<"pickle", x>>             \* pickle.dumps(scores)

ToSet(list) == {list[i] : i \in DOMAIN list}

(* The share of the validator's entries that are also in my_data.          *)
compare_to_validator_data(my_data, validator_data) ==
    LET validator_data_set == ToSet(validator_data)
        my_data_set == ToSet(my_data)
    IN  IF validator_data_set = {} THEN 100000
        ELSE (Cardinality(my_data_set \cap validator_data_set) * 1000)
                \div Cardinality(validator_data_set)

(* compare_consensus_data, in thousandths (1.0 is 1000, 100.0 is 100000).  *)
compare_consensus_data(my_data, validator_data) ==
    LET validator_data_set == ToSet(validator_data)
        my_data_set == ToSet(my_data)
        intersection == my_data_set \cap validator_data_set
        union == my_data_set \cup validator_data_set
    IN  IF union = {} THEN 100000
        ELSE (Cardinality(intersection) * 1000) \div Cardinality(union)

(* A gate that lets a half-matching proposal through.                      *)
AttestGateAtLeastHalf(accuracy) == accuracy >= 500

(* The attestor's test `1.0 == compare_consensus_data(...)`.               *)
AttestGate(accuracy) == accuracy = 1000

(* A test that takes every node for an attestor.                           *)
did_node_attest_any(subnet_node_id, cd) == TRUE

(* did_node_attest: attests is a list of one-key dicts, kept as the keys.  *)
did_node_attest(subnet_node_id, cd) ==
    \E i \in DOMAIN cd.attests : cd.attests[i] = subnet_node_id

(* The test that ends the wait for the election:                           *)
(*   `validator is not None or validator != 'None'`.                       *)
NoneVal == 0            \* Python None as a validator id
NoneStr == 0 - 1        \* the string 'None' as a validator id
ValidatorChosen(validator) == validator # NoneVal \/ validator # NoneStr

----------------------------------------------------------------------------
(* Blockchain client.  The chain keeps one consensus record per subnet     *)
(* epoch; propose_attestation and attest act on the record of the epoch    *)
(* in which they are called.                                               *)
RECURSIVE SetToSeq(_)
SetToSeq(S) ==
    IF S = {} THEN <<>>
    ELSE LET m == CHOOSE x \in S : \A y \in S : x <= y
         IN  <<m>> \o SetToSeq(S \ {m})

(* propose_attestation: the record written for the epoch; `subnet_nodes`   *)
(* is the node table at the time of the call.                              *)
ProposalRecord(validator_id, data, subnet_nodes) ==
    [validator_id |-> validator_id,
     attests |-> SetToSeq(subnet_nodes),
     data |-> data]

(* An attest that appends without dropping the node's earlier entry.       *)
AttestRecordAppendOnly(consensus, subnet_node_id) ==
    [consensus EXCEPT !.attests = @ \o <<subnet_node_id>>]

(* attest: drop any entry of this node, then append one.                   *)
AttestRecord(consensus, subnet_node_id) ==
    [consensus EXCEPT !.attests =
        SelectSeq(@, LAMBDA a : a # subnet_node_id) \o <<subnet_node_id>>]

CountAttests(cd, id) == Cardinality({i \in DOMAIN cd.attests : cd.attests[i] = id})

----------------------------------------------------------------------------
(* Domains of the state functions.                                         *)
EpochDom == (0 - 2)..MaxEpoch

(* Values of the variables a specification does not use.                   *)
IdleNode ==
    /\ pc = "exit" /\ ret = "exit" /\ wake = 0 /\ stop = FALSE
    /\ started = FALSE /\ last_epoch = 0 - 1 /\ cur = 0
    /\ epoch_scores = [e \in EpochDom |-> None]
    /\ consensus_data = None
    /\ latest_task_commit = None
    /\ latest_scores_commit = [e \in EpochDom |-> None]
    /\ dht = [f \in Families |-> None]
    /\ chainValidator = NoneVal
    /\ chainConsensus = None
    /\ doneEpoch = 0 - 1 /\ done = {} /\ lastAct = [epoch |-> 0 - 1, phase |-> 0, nth |-> 0]
    /\ lastAttest = None /\ lastPropose = None
    /\ rc_exit = "none" /\ verdict = "none" /\ raises = 0

IdlePred ==
    /\ accepted = <<>>
    /\ lastPost = None

IdleAuth ==
    /\ now = 0 /\ recent_nonces = <<>> /\ inflight = <<>> /\ running = 0
    /\ pos_cache = <<>> /\ authLog = <<>>

IdleWrap == rpc = <<>>

IdleSig == swarm = <<>>

IdleBoot == boot = <<>>
IdleSrv == server = <<>>
IdleVsr == vsr = <<>>
IdleAgg == agg = <<>>
IdleJac == jac = <<>>
IdleLim == limiter = <<>>
IdleRest == IdleAgg /\ IdleJac /\ IdleLim

----------------------------------------------------------------------------
(* Spec: the consensus process.                                            *)
Init ==
    /\ block = StartBlock
    /\ pc = "run_forever" /\ ret = "run_forever" /\ wake = 0 /\ stop = FALSE
    /\ started = FALSE /\ last_epoch = 0 - 1 /\ cur = 0
    /\ epoch_scores = [e \in EpochDom |-> None]
    /\ consensus_data = None
    /\ latest_task_commit = None
    /\ latest_scores_commit = [e \in EpochDom |-> None]
    /\ dht = [f \in Families |-> None]
    /\ tracker = <<>>
    /\ chainValidator = NoneVal
    /\ chainConsensus = None
    /\ doneEpoch = 0 - 1 /\ done = {} /\ lastAct = [epoch |-> 0 - 1, phase |-> 0, nth |-> 0]
    /\ lastAttest = None /\ lastPropose = None
    /\ rc_exit = "none" /\ verdict = "none" /\ raises = 0
    /\ IdlePred /\ IdleAuth /\ IdleWrap /\ IdleSig /\ IdleBoot /\ IdleSrv /\ IdleVsr /\ IdleRest

(* asyncio.sleep(n blocks) / wait_for(..., timeout): resume at `resume`.   *)
Sleep(n, resume) ==
    /\ pc' = "sleep" /\ wake' = block + n /\ ret' = resume

Goto(l) == pc' = l /\ UNCHANGED <<wake, ret>>

(* Record that engine action `phase` was invoked for epoch e; nth counts   *)
(* from 1 and is 2 or more when the action had been invoked for e before.  *)
Exec(e, phase) ==
    /\ doneEpoch' = e
    /\ done' = (IF doneEpoch = e THEN done ELSE {}) \cup {phase}
    /\ lastAct' = [epoch |-> e, phase |-> phase,
                   nth |-> IF lastAct.epoch = e /\ lastAct.phase = phase
                           THEN lastAct.nth + 1
                           ELSE IF doneEpoch = e /\ phase \in done THEN 2 ELSE 1]

NoExec == UNCHANGED <<doneEpoch, done, lastAct>>

(* dht.store of this node's record: it is kept when the transport reaches  *)
(* the validating peers and the predicate validator accepts it.            *)
StoreOk(key, expiration_time, transport) ==
    transport /\ PredicatePost(tracker, key, TRUE, SelfId, expiration_time, block)

DhtStore(key, value, expiration_time, transport) ==
    /\ dht' = IF StoreOk(key, expiration_time, transport)
              THEN [dht EXCEPT ![key.family] = Some(value)] ELSE dht
    /\ tracker' = IF transport
                  THEN PredicateTracker(tracker, key, TRUE, SelfId, expiration_time, block)
                  ELSE tracker

(* The clock advances while the process is suspended: in a sleep that has  *)
(* not run out, or awaiting the peers' answers in                          *)
(* call_and_commit_all_tasks.                                              *)
Suspended == (pc = "sleep" /\ block < wake) \/ pc = "call_and_commit"

(* A new block.  The chain record, the DHT keys and the store counters of  *)
(* an epoch cannot be read or written by the process once the epoch is     *)
(* over (every access is for the epoch the clock shows), so the state      *)
(* keeps those of the current epoch only.                                  *)
Tick ==
    /\ block < MaxBlock
    /\ Suspended
    /\ block' = block + 1
    /\ IF SubnetEpoch(block + 1) # SubnetEpoch(block)
       THEN /\ chainValidator' = NoneVal
            /\ chainConsensus' = None
            /\ dht' = [f \in Families |-> None]
            /\ tracker' = <<>>
       ELSE UNCHANGED <<chainVars, dhtVars>>
    /\ UNCHANGED <<nodeVars, taskVars, histVars, predVars, authVars,
                   wrapVars, sigVars, bootVars, srvVars, vsrVars, aggVars, jacVars, limVars>>

(* The process reads the stop event and the chain only at certain points,  *)
(* so what its environment did since the last read is taken right there.   *)
Observing == pc \notin {"sleep", "call_and_commit", "exit"}

(* Consensus.shutdown(): sets the stop event.                              *)
Shutdown ==
    /\ ~stop /\ Observing
    /\ stop' = TRUE
    /\ UNCHANGED <<block, pc, ret, wake, started, last_epoch, cur, epoch_scores,
                   consensus_data, taskVars, dhtVars, chainVars, histVars,
                   predVars, authVars,
                   wrapVars, sigVars, bootVars, srvVars, vsrVars, aggVars, jacVars, limVars>>

(* get_scores(target_epoch): drops epoch_scores[target_epoch - 1].         *)
get_scores_dict(es, target_epoch) == [es EXCEPT ![target_epoch - 1] = None]

(* A lookup that returns the scores of the epoch after the one asked for.  *)
get_scores_of_next(es, target_epoch) == es[target_epoch + 1]

(* get_scores(target_epoch): what it returns, epoch_scores.get(target).    *)
get_scores(es, target_epoch) == get_scores_dict(es, target_epoch)[target_epoch]

(* The chain elects the validator of the current subnet epoch.  (The       *)
(* process reads the election only in an epoch for which it holds scores.) *)
ElectValidator ==
    /\ Observing
    /\ cur = SubnetEpoch(block) /\ ~IsNone(get_scores(epoch_scores, cur - 1))
    /\ chainValidator = NoneVal
    /\ \E v \in NodeIds : chainValidator' = v
    /\ UNCHANGED <<block, nodeVars, taskVars, dhtVars, chainConsensus,
                   histVars, predVars, authVars,
                   wrapVars, sigVars, bootVars, srvVars, vsrVars, aggVars, jacVars, limVars>>

(* Another node, elected for the current epoch, calls propose_attestation. *)
OtherPropose ==
    /\ pc = "attestor"
    /\ chainValidator = OtherId
    /\ \E data \in ScoreLists, nodes \in {{OtherId}, NodeIds} :
         chainConsensus' = Some(ProposalRecord(OtherId, data, nodes))
    /\ UNCHANGED <<block, nodeVars, taskVars, dhtVars, chainValidator,
                   histVars, predVars, authVars,
                   wrapVars, sigVars, bootVars, srvVars, vsrVars, aggVars, jacVars, limVars>>

(* A sleep or a wait_for timeout ends.                                     *)
Wake ==
    /\ pc = "sleep" /\ block >= wake
    /\ pc' = ret
    /\ UNCHANGED <<block, ret, wake, stop, started, last_epoch, cur, epoch_scores,
                   consensus_data, taskVars, dhtVars, chainVars, histVars,
                   predVars, authVars,
                   wrapVars, sigVars, bootVars, srvVars, vsrVars, aggVars, jacVars, limVars>>

(* A loop head without the wait for the first epoch boundary.              *)
RunForeverUngated ==
    /\ pc = "run_forever"
    /\ IF stop
       THEN Goto("exit") /\ UNCHANGED <<started, cur>>
       ELSE /\ cur' = SubnetEpoch(block)
            /\ started' = TRUE
            /\ IF SubnetEpoch(block) # last_epoch
               THEN Goto("run_consensus")
               ELSE Sleep(blocks_remaining(block), "run_forever")
    /\ UNCHANGED <<block, stop, last_epoch, epoch_scores, consensus_data, taskVars,
                   dhtVars, chainVars, histVars, predVars, authVars,
                   wrapVars, sigVars, bootVars, srvVars, vsrVars, aggVars, jacVars, limVars>>

(* run_forever, loop head: lines 191-215 and 244-252.                      *)
RunForeverTop ==
    /\ pc = "run_forever"
    /\ IF stop
       THEN Goto("exit") /\ UNCHANGED <<started, cur>>
       ELSE IF ~started
            THEN /\ started' = TRUE
                 /\ Sleep(blocks_remaining(block), "run_forever")
                 /\ UNCHANGED cur
            ELSE /\ cur' = SubnetEpoch(block)
                 /\ UNCHANGED started
                 /\ IF SubnetEpoch(block) # last_epoch
                    THEN Goto("run_consensus")
                    ELSE Sleep(blocks_remaining(block), "run_forever")
    /\ UNCHANGED <<block, stop, last_epoch, epoch_scores, consensus_data, taskVars,
                   dhtVars, chainVars, histVars, predVars, authVars,
                   wrapVars, sigVars, bootVars, srvVars, vsrVars, aggVars, jacVars, limVars>>

(* Receipts of a submission: is_success or not.  (The mock clients always  *)
(* succeed; with them the attestor returns right after attest.)            *)
Receipts == BOOLEAN

(* A validator's branch that submits without looking for a proposal.       *)
ProposeAlways(scores) ==
    LET existed == ~IsNone(chainConsensus)
        before == IF ~IsNone(lastPropose) /\ Get(lastPropose).epoch = cur
                  THEN Get(lastPropose)
                  ELSE [epoch |-> cur, existed |-> FALSE, calls |-> 0, stored |-> 0,
                        data |-> scores]
    IN  \E ok \in Receipts, nodes \in {{SelfId}, NodeIds} :
           /\ chainConsensus' =
                IF ok THEN Some(ProposalRecord(SelfId, scores, nodes))
                ELSE chainConsensus
           /\ lastPropose' = Some([epoch |-> cur,
                                   existed |-> before.existed \/ existed,
                                   calls |-> before.calls + 1,
                                   stored |-> before.stored + (IF ok THEN 1 ELSE 0),
                                       data |-> scores])
           /\ rc_exit' = "proposed"

(* The elected validator's branch of run_consensus, lines 379-408.         *)
ProposeIfAbsent(scores) ==
    LET existed == ~IsNone(chainConsensus)
        before == IF ~IsNone(lastPropose) /\ Get(lastPropose).epoch = cur
                  THEN Get(lastPropose)
                  ELSE [epoch |-> cur, existed |-> FALSE, calls |-> 0, stored |-> 0,
                        data |-> scores]
    IN  IF existed
        THEN /\ rc_exit' = "already_proposed"
             /\ UNCHANGED <<chainConsensus, lastPropose>>
        ELSE \E ok \in Receipts, nodes \in {{SelfId}, NodeIds} :
               /\ chainConsensus' =
                    IF ok THEN Some(ProposalRecord(SelfId, scores, nodes))
                    ELSE chainConsensus
               /\ lastPropose' = Some([epoch |-> cur,
                                       existed |-> before.existed \/ existed,
                                       calls |-> before.calls + 1,
                                       stored |-> before.stored + (IF ok THEN 1 ELSE 0),
                                       data |-> scores])
               /\ rc_exit' = "proposed"

(* run_consensus, lines 356-358: the scores of the previous epoch.         *)
RunConsensus ==
    /\ pc = "run_consensus"
    /\ epoch_scores' = get_scores_dict(epoch_scores, cur - 1)
    /\ IF IsNone(get_scores(epoch_scores, cur - 1))
       THEN Goto("run_task_commit") /\ rc_exit' = "no_scores"
       ELSE Goto("get_validator") /\ rc_exit' = "none"
    /\ UNCHANGED <<block, stop, started, last_epoch, cur, consensus_data, taskVars,
                   dhtVars, chainVars, doneEpoch, done, lastAct, lastAttest,
                   lastPropose, verdict, raises, predVars, authVars,
                   wrapVars, sigVars, bootVars, srvVars, vsrVars, aggVars, jacVars, limVars>>

(* run_consensus, lines 360-411: the wait for the election and the         *)
(* elected validator's branch.                                             *)
GetValidator ==
    /\ pc = "get_validator"
    /\ LET scores == get_scores(epoch_scores, cur - 1)
           validator == chainValidator
       IN  IF stop
           THEN /\ Goto("run_task_commit") /\ rc_exit' = "stopped"
                /\ UNCHANGED <<chainConsensus, lastPropose, consensus_data>>
           ELSE IF SubnetEpoch(block) # cur
           THEN /\ Goto("run_task_commit") /\ rc_exit' = "epoch_changed"
                /\ UNCHANGED <<chainConsensus, lastPropose, consensus_data>>
           ELSE IF ~ValidatorChosen(validator)
           THEN /\ Sleep(1, "get_validator") /\ rc_exit' = "none"
                /\ UNCHANGED <<chainConsensus, lastPropose, consensus_data>>
           ELSE IF validator = NoneVal
           THEN /\ Goto("run_task_commit") /\ rc_exit' = "validator_unknown"
                /\ UNCHANGED <<chainConsensus, lastPropose, consensus_data>>
           ELSE IF validator = SelfId
           THEN /\ Goto("run_task_commit")
                /\ ProposeIfAbsent(Get(scores))
                /\ UNCHANGED consensus_data
           ELSE /\ Goto("attestor") /\ rc_exit' = "attestor"
                /\ consensus_data' = None
                /\ UNCHANGED <<chainConsensus, lastPropose>>
    /\ UNCHANGED <<block, stop, started, last_epoch, cur, epoch_scores, taskVars,
                   dhtVars, chainValidator, doneEpoch, done, lastAct, lastAttest,
                   verdict, raises, predVars, authVars,
                   wrapVars, sigVars, bootVars, srvVars, vsrVars, aggVars, jacVars, limVars>>

(* One iteration of the attestor loop of run_consensus: lines 413-456.     *)
AttestorLoop ==
    /\ pc = "attestor"
    /\ LET scores == Get(get_scores(epoch_scores, cur - 1))
           cd == IF IsNone(consensus_data) THEN chainConsensus ELSE consensus_data
           before == IF ~IsNone(lastAttest) /\ Get(lastAttest).epoch = cur
                     THEN Get(lastAttest).n ELSE 0
       IN  IF stop
           THEN /\ Goto("run_task_commit")
                /\ UNCHANGED <<consensus_data, chainConsensus, lastAttest>>
           ELSE /\ consensus_data' = cd
                /\ IF SubnetEpoch(block) # cur \/ percent_complete(block) > ATTEST_DEADLINE
                   THEN Goto("run_task_commit") /\ UNCHANGED <<chainConsensus, lastAttest>>
                   ELSE IF IsNone(cd)
                   THEN Sleep(1, "attestor") /\ UNCHANGED <<chainConsensus, lastAttest>>
                   ELSE IF ~AttestGate(compare_consensus_data(scores, Get(cd).data))
                   THEN Goto("run_task_commit") /\ UNCHANGED <<chainConsensus, lastAttest>>
                   ELSE IF did_node_attest(SelfId, Get(cd))
                   THEN Goto("run_task_commit") /\ UNCHANGED <<chainConsensus, lastAttest>>
                   ELSE \E ok \in Receipts :
                          /\ chainConsensus' =
                               IF ok THEN Some(AttestRecord(Get(chainConsensus), SelfId))
                               ELSE chainConsensus
                          /\ lastAttest' = Some([epoch |-> cur, my |-> scores,
                                                 theirs |-> Get(cd).data,
                                                 n |-> before + 1])
                          /\ IF ok THEN Goto("run_task_commit")
                                   ELSE Sleep(1, "attestor")
    /\ UNCHANGED <<block, stop, started, last_epoch, cur, epoch_scores, taskVars,
                   dhtVars, chainValidator, doneEpoch, done, lastAct,
                   lastPropose, rc_exit, verdict, raises, predVars, authVars,
                   wrapVars, sigVars, bootVars, srvVars, vsrVars, aggVars, jacVars, limVars>>

(* A phase that does not compare the epoch it reads with its argument.     *)
epoch_not_compared(current_epoch) == FALSE

(* run_*: epoch_data = get_subnet_epoch_data(slot) at the head of every    *)
(* pass of the phase's loop, and `_current_epoch != current_epoch`.        *)
epoch_advanced(current_epoch) == SubnetEpoch(block) # current_epoch

(* Expiration the engine asks for: get_dht_time() + MAX_..._TIME * .9      *)
CommitExpiration == get_dht_time(block) + (MAX_COMMIT_TIME * 9) \div 10
RevealExpiration == get_dht_time(block) + (MAX_REVEAL_TIME * 9) \div 10

(* run_task_commit: lines 257-267, up to the awaits of the engine call.    *)
RunTaskCommit ==
    /\ pc = "run_task_commit"
    /\ IF stop \/ epoch_advanced(cur)
          \/ percent_complete(block) > VERIFIER_COMMIT_DEADLINE
       THEN Goto("run_task_reveal") /\ NoExec
       ELSE Goto("call_and_commit") /\ Exec(cur, 1)
    /\ UNCHANGED <<block, stop, started, last_epoch, cur, epoch_scores, consensus_data,
                   taskVars, dhtVars, chainVars, lastAttest, lastPropose, rc_exit,
                   verdict, raises, predVars, authVars,
                   wrapVars, sigVars, bootVars, srvVars, vsrVars, aggVars, jacVars, limVars>>

(* call_and_commit_all_tasks after the peers answered: lines 114-139.      *)
call_and_commit_all_tasks ==
    /\ pc = "call_and_commit"
    /\ Goto("run_task_reveal")
    /\ \E has_evals \in BOOLEAN, salt \in Salts, transport \in BOOLEAN :
         IF ~has_evals
         THEN UNCHANGED <<latest_task_commit, dht, tracker>>
         ELSE /\ DhtStore(get_verifier_commit_key(cur), Digest(salt, TaskBytes),
                          CommitExpiration, transport)
              /\ latest_task_commit' =
                   Some([target_epoch |-> cur, salt |-> salt, bytes |-> TaskBytes])
    /\ UNCHANGED <<block, stop, started, last_epoch, cur, epoch_scores, consensus_data,
                   latest_scores_commit, chainVars, histVars, predVars, authVars,
                   wrapVars, sigVars, bootVars, srvVars, vsrVars, aggVars, jacVars, limVars>>

(* run_task_reveal with reveal_tasks: lines 269-283 and task.py 141-168.   *)
RunTaskReveal ==
    /\ pc = "run_task_reveal"
    /\ IF stop \/ epoch_advanced(cur)
          \/ percent_complete(block) > VERIFIER_REVEAL_DEADLINE
       THEN Goto("run_reveal_scores") /\ NoExec /\ UNCHANGED <<dht, tracker>>
       ELSE IF percent_complete(block) <= VERIFIER_COMMIT_DEADLINE
       THEN Sleep(1, "run_task_reveal") /\ NoExec /\ UNCHANGED <<dht, tracker>>
       ELSE /\ Goto("run_reveal_scores") /\ Exec(cur, 2)
            /\ IF IsNone(latest_task_commit)
                  \/ Get(latest_task_commit).target_epoch # cur
               THEN UNCHANGED <<dht, tracker>>
               ELSE \E transport \in BOOLEAN :
                      DhtStore(get_verifier_reveal_key(cur),
                               [salt |-> Get(latest_task_commit).salt,
                                bytes |-> Get(latest_task_commit).bytes],
                               RevealExpiration, transport)
    /\ UNCHANGED <<block, stop, started, last_epoch, cur, epoch_scores, consensus_data,
                   taskVars, chainVars, lastAttest, lastPropose, rc_exit, verdict,
                   raises, predVars, authVars,
                   wrapVars, sigVars, bootVars, srvVars, vsrVars, aggVars, jacVars, limVars>>

(* run_reveal_scores with reveal_scores: lines 305-319, task.py 195-223.   *)
RunRevealScores ==
    /\ pc = "run_reveal_scores"
    /\ IF stop \/ epoch_advanced(cur)
          \/ percent_complete(block) > SCORES_REVEAL_DEADLINE
       THEN Goto("run_verify") /\ NoExec /\ UNCHANGED <<dht, tracker>>
       ELSE IF percent_complete(block) <= VERIFIER_COMMIT_DEADLINE
       THEN Sleep(1, "run_reveal_scores") /\ NoExec /\ UNCHANGED <<dht, tracker>>
       ELSE /\ Goto("run_verify") /\ Exec(cur, 3)
            /\ IF IsNone(latest_scores_commit[cur - 2])
               THEN UNCHANGED <<dht, tracker>>
               ELSE \E transport \in BOOLEAN :
                      DhtStore(get_scores_reveal_key(cur),
                               [salt |-> Get(latest_scores_commit[cur - 2]).salt,
                                bytes |-> Get(latest_scores_commit[cur - 2]).bytes],
                               RevealExpiration, transport)
    /\ UNCHANGED <<block, stop, started, last_epoch, cur, epoch_scores, consensus_data,
                   taskVars, chainVars, lastAttest, lastPropose, rc_exit, verdict,
                   raises, predVars, authVars,
                   wrapVars, sigVars, bootVars, srvVars, vsrVars, aggVars, jacVars, limVars>>

(* What verify_and_score_peers makes of this node's own reveal: lines      *)
(* 338-372.  A missing commit raises inside the try and is caught.         *)
OwnVerdict(commit, reveal) ==
    IF IsNone(reveal) THEN "no_reveal"
    ELSE IF IsNone(commit) THEN "discarded_missing_commit"
    ELSE IF Get(commit) # Digest(Get(reveal).salt, Get(reveal).bytes)
         THEN "discarded_hash_mismatch"
    ELSE "scored"

(* run_verify_and_score_peers with verify_and_score_peers: lines 321-334   *)
(* and 226-232; task.py 325-422.  The records of the other peers and the   *)
(* resulting score list are inputs.                                        *)
RunVerifyAndScorePeers ==
    /\ pc = "run_verify"
    /\ IF stop
       THEN \* the loop is not entered, None is returned and cannot be unpacked
            /\ Sleep(1, "run_forever") /\ NoExec
            /\ UNCHANGED <<epoch_scores, verdict>>
       ELSE IF epoch_advanced(cur)
       THEN Goto("run_forever_end") /\ NoExec /\ UNCHANGED <<epoch_scores, verdict>>
       ELSE IF percent_complete(block) <= VERIFIER_REVEAL_DEADLINE
       THEN Sleep(1, "run_verify") /\ NoExec /\ UNCHANGED <<epoch_scores, verdict>>
       ELSE /\ Exec(cur, 4)
            /\ \E others_commit \in BOOLEAN, others_reveal \in BOOLEAN,
                  result \in ScoreLists :
                 LET own_commit == dht["verifier_commit"]
                     own_reveal == dht["verifier_reveal"]
                     commit_records == others_commit \/ ~IsNone(own_commit)
                     reveal_records == others_reveal \/ ~IsNone(own_reveal)
                     v == OwnVerdict(own_commit, own_reveal)
                     scores == IF others_reveal \/ v = "scored" THEN result ELSE <<>>
                 IN  IF ~reveal_records /\ ~commit_records
                     THEN /\ Goto("run_forever_end")
                          /\ UNCHANGED <<epoch_scores, verdict>>
                     ELSE IF ~reveal_records
                     THEN \* `{}.value` raises outside the try
                          /\ Sleep(1, "run_forever")
                          /\ UNCHANGED <<epoch_scores, verdict>>
                     ELSE /\ verdict' = v
                          /\ IF scores # <<>>
                             THEN /\ epoch_scores' = [epoch_scores EXCEPT ![cur] = Some(scores)]
                                  /\ Goto("run_commit_scores")
                             ELSE /\ UNCHANGED epoch_scores
                                  /\ Goto("run_forever_end")
    /\ UNCHANGED <<block, stop, started, last_epoch, cur, consensus_data, taskVars,
                   dhtVars, chainVars, lastAttest, lastPropose, rc_exit, raises,
                   predVars, authVars,
                   wrapVars, sigVars, bootVars, srvVars, vsrVars, aggVars, jacVars, limVars>>

(* run_commit_scores with commit_scores: lines 285-303, task.py 170-193.   *)
RunCommitScores ==
    /\ pc = "run_commit_scores"
    /\ IF stop \/ epoch_advanced(cur)
       THEN /\ Goto("run_forever_end") /\ NoExec
            /\ UNCHANGED <<latest_scores_commit, dht, tracker>>
       ELSE IF percent_complete(block) <= SCORES_REVEAL_DEADLINE
       THEN /\ Sleep(1, "run_commit_scores") /\ NoExec
            /\ UNCHANGED <<latest_scores_commit, dht, tracker>>
       ELSE /\ Goto("run_forever_end") /\ Exec(cur, 5)
            /\ \E salt \in Salts, transport \in BOOLEAN :
                 LET scores_bytes == Pickle(Get(epoch_scores[cur]))
                 IN  /\ DhtStore(get_scores_commit_key(cur), Digest(salt, scores_bytes),
                                 CommitExpiration, transport)
                     /\ latest_scores_commit' =
                          [latest_scores_commit EXCEPT ![cur] =
                              Some([salt |-> salt, bytes |-> scores_bytes])]
    /\ UNCHANGED <<block, stop, started, last_epoch, cur, epoch_scores, consensus_data,
                   latest_task_commit, chainVars, lastAttest, lastPropose, rc_exit,
                   verdict, raises, predVars, authVars,
                   wrapVars, sigVars, bootVars, srvVars, vsrVars, aggVars, jacVars, limVars>>

(* run_forever after the phases: lines 239-252.                            *)
RunForeverEnd ==
    /\ pc = "run_forever_end"
    /\ last_epoch' = cur
    /\ \E read_ok \in BOOLEAN :
         IF read_ok THEN Sleep(blocks_remaining(block), "run_forever")
                    ELSE Sleep(1, "run_forever")
    /\ UNCHANGED <<block, stop, started, cur, epoch_scores, consensus_data, taskVars,
                   dhtVars, chainVars, histVars, predVars, authVars,
                   wrapVars, sigVars, bootVars, srvVars, vsrVars, aggVars, jacVars, limVars>>

(* A blockchain read, DHT call or RPC of the current step raises; the      *)
(* handler of run_forever logs it and sleeps one block: lines 253-255.     *)
RaisingPcs == {"run_forever", "run_consensus", "get_validator", "attestor",
               "run_task_commit", "call_and_commit", "run_task_reveal",
               "run_reveal_scores", "run_verify", "run_commit_scores"}

(* An exception that is not caught inside the loop.                        *)
RaiseEndsLoop ==
    /\ pc \in RaisingPcs
    /\ ~stop \/ pc = "call_and_commit"
    /\ raises < MaxRaises
    /\ raises' = raises + 1
    /\ Goto("exit")
    /\ UNCHANGED <<block, stop, started, last_epoch, cur, epoch_scores, consensus_data,
                   taskVars, dhtVars, chainVars, doneEpoch, done, lastAct, lastAttest,
                   lastPropose, rc_exit, verdict, predVars, authVars,
                   wrapVars, sigVars, bootVars, srvVars, vsrVars, aggVars, jacVars, limVars>>

Raise ==
    /\ pc \in RaisingPcs
    /\ ~stop \/ pc = "call_and_commit"
    /\ raises < MaxRaises
    /\ raises' = raises + 1
    /\ Sleep(1, "run_forever")
    /\ UNCHANGED <<block, stop, started, last_epoch, cur, epoch_scores, consensus_data,
                   taskVars, dhtVars, chainVars, doneEpoch, done, lastAct, lastAttest,
                   lastPropose, rc_exit, verdict, predVars, authVars,
                   wrapVars, sigVars, bootVars, srvVars, vsrVars, aggVars, jacVars, limVars>>

Next ==
    \/ Tick
    \/ Shutdown
    \/ ElectValidator
    \/ OtherPropose
    \/ Wake
    \/ RunForeverTop
    \/ RunConsensus
    \/ GetValidator
    \/ AttestorLoop
    \/ RunTaskCommit
    \/ call_and_commit_all_tasks
    \/ RunTaskReveal
    \/ RunRevealScores
    \/ RunVerifyAndScorePeers
    \/ RunCommitScores
    \/ RunForeverEnd
    \/ Raise

Spec == Init /\ [][Next]_vars

(* PhaseSpec: one pass through the phase sequence of run_forever, lines    *)
(* 226-252, in a process that entered subnet epoch 0 without scores of an  *)
(* earlier epoch: run_forever has read the epoch into current_epoch,       *)
(* run_consensus has returned, and run_task_commit(current_epoch) is       *)
(* called at some block of the epoch.  No call raises.                     *)
PhaseEntryBlocks == {b \in 0..MaxBlock : SubnetEpoch(b) = 0}

PhaseInit ==
    /\ block \in PhaseEntryBlocks
    /\ pc = "run_task_commit" /\ ret = "run_forever" /\ wake = block /\ stop = FALSE
    /\ started = TRUE /\ last_epoch = 0 - 1 /\ cur = SubnetEpoch(block)
    /\ epoch_scores = [e \in EpochDom |-> None]
    /\ consensus_data = None
    /\ latest_task_commit = None
    /\ latest_scores_commit = [e \in EpochDom |-> None]
    /\ dht = [f \in Families |-> None]
    /\ tracker = <<>>
    /\ chainValidator = NoneVal
    /\ chainConsensus = None
    /\ doneEpoch = 0 - 1 /\ done = {} /\ lastAct = [epoch |-> 0 - 1, phase |-> 0, nth |-> 0]
    /\ lastAttest = None /\ lastPropose = None
    /\ rc_exit = "no_scores" /\ verdict = "none" /\ raises = 0
    /\ IdlePred /\ IdleAuth /\ IdleWrap /\ IdleSig /\ IdleBoot /\ IdleSrv /\ IdleVsr /\ IdleRest

PhaseNext ==
    \/ Tick
    \/ Shutdown
    \/ Wake
    \/ RunTaskCommit
    \/ call_and_commit_all_tasks
    \/ RunTaskReveal
    \/ RunRevealScores
    \/ RunVerifyAndScorePeers
    \/ RunCommitScores
    \/ RunForeverEnd

PhaseSpec == PhaseInit /\ [][PhaseNext]_vars

----------------------------------------------------------------------------
(* Properties of the consensus process (Spec).                             *)

(* C1: whenever a task reveal {salt, bytes} of this node is in the DHT     *)
(* under verifier_reveal of the current epoch, the digest stored under     *)
(* verifier_commit of that epoch exists and equals SHA-256(salt || bytes). *)
C1_RevealMatchesCommit ==
    ~IsNone(dht["verifier_reveal"]) =>
        /\ ~IsNone(dht["verifier_commit"])
        /\ Get(dht["verifier_commit"]) =
              Digest(Get(dht["verifier_reveal"]).salt, Get(dht["verifier_reveal"]).bytes)

(* C2: within one epoch no engine action is executed after a later-listed  *)
(* one: the action executed last is the latest-listed of those executed    *)
(* for that epoch (1 task-commit, 2 task-reveal, 3 score-reveal,           *)
(* 4 verify-and-score, 5 score-commit).                                    *)
C2_PhaseOrder ==
    doneEpoch = lastAct.epoch => \A q \in done : q <= lastAct.phase

(* C5: every attest call of this node was made with own scores and         *)
(* proposed data of Jaccard similarity exactly 1: the two are equal as     *)
(* sets (and not both empty).                                              *)
C5_AttestOnlyOnExactMatch ==
    ~IsNone(lastAttest) =>
        /\ ToSet(Get(lastAttest).my) = ToSet(Get(lastAttest).theirs)
        /\ ToSet(Get(lastAttest).my) # {}

C5_Witness ==
    /\ ~IsNone(lastAttest)
    /\ Get(lastAttest).epoch = SubnetEpoch(block)
    /\ Cardinality(ToSet(Get(lastAttest).theirs)) = 2

(* C6: the on-chain consensus record of the epoch never holds more than    *)
(* one attestation entry of this node.                                     *)
C6_AtMostOneAttestEntry ==
    ~IsNone(chainConsensus) => CountAttests(Get(chainConsensus), SelfId) <= 1

(* The node called attest twice in the epoch, the second time on a record  *)
(* that already listed it, and the record lists it once.                   *)
C6_Witness ==
    /\ ~IsNone(lastAttest) /\ ~IsNone(chainConsensus)
    /\ Get(lastAttest).epoch = SubnetEpoch(block)
    /\ Get(lastAttest).n >= 2
    /\ Len(Get(chainConsensus).attests) = 2
    /\ CountAttests(Get(chainConsensus), SelfId) = 1

(* C7: the elected node submits propose_attestation when the epoch has no  *)
(* proposal, never when it has one, and at most one of its proposals is    *)
(* taken on-chain per epoch.                                               *)
C7_NeverOverExisting ==
    ~IsNone(lastPropose) =>
        /\ ~Get(lastPropose).existed
        /\ Get(lastPropose).stored <= 1

C7_SubmitsWhenAbsent ==
    (/\ pc = "get_validator" /\ ~stop /\ SubnetEpoch(block) = cur
     /\ chainValidator = SelfId /\ pc' = "run_task_commit")
    => IF IsNone(chainConsensus)
       THEN lastPropose' # lastPropose /\ Get(lastPropose').calls >= 1
       ELSE lastPropose' = lastPropose /\ chainConsensus' = chainConsensus

C7_ProposeOncePerEpoch == []C7_NeverOverExisting /\ [][C7_SubmitsWhenAbsent]_vars

(* An empty-handed second pass: the node proposed, an exception sent it    *)
(* through run_consensus again, and it did not submit a second time.       *)
C7_Witness ==
    /\ ~IsNone(lastPropose) /\ Get(lastPropose).epoch = SubnetEpoch(block)
    /\ Get(lastPropose).calls = 1 /\ Get(lastPropose).stored = 1
    /\ rc_exit = "already_proposed"

(* C8: the node never leaves run_consensus for want of a validator in an   *)
(* epoch whose validator is then elected while the epoch lasts.            *)
C8_ActsOnLateElection ==
    ~(/\ rc_exit = "validator_unknown"
      /\ cur = SubnetEpoch(block)
      /\ chainValidator # NoneVal)

(* C21: while the node is in epoch E, a proposal or an attestation it has   *)
(* submitted for E was made with exactly the scores that verify-and-score   *)
(* stored for epoch E-1; so none is submitted when no scores were stored    *)
(* for E-1.                                                                 *)
C21_ScoresOfPreviousEpoch ==
    /\ (~IsNone(lastPropose) /\ Get(lastPropose).epoch = cur) =>
          (/\ ~IsNone(epoch_scores[cur - 1])
           /\ Get(lastPropose).data = Get(epoch_scores[cur - 1]))
    /\ (~IsNone(lastAttest) /\ Get(lastAttest).epoch = cur) =>
          (/\ ~IsNone(epoch_scores[cur - 1])
           /\ Get(lastAttest).my = Get(epoch_scores[cur - 1]))

(* C21 witness: in an epoch that follows one with stored scores the node    *)
(* has proposed; and it has gone through run_consensus without scores.      *)
C21_Witness ==
    /\ ~IsNone(lastPropose) /\ Get(lastPropose).epoch = cur
    /\ Get(lastPropose).calls = 1
    /\ Get(lastPropose).data = <<Entry(SelfId), Entry(OtherId)>>
    /\ cur = SubnetEpoch(block)

(* C22: attest is called for epoch E only by a step at which the clock    *)
(* shows epoch E and percent_complete <= 0.15; and a step of the attestor  *)
(* loop at which the clock shows more, or another epoch, ends the loop.    *)
C22_AttestOnlyEarly ==
    /\ [][lastAttest' # lastAttest =>
             (SubnetEpoch(block) = cur /\ percent_complete(block) <= 15)]_vars
    /\ [][(/\ pc = "attestor" /\ pc' # pc
           /\ (SubnetEpoch(block) # cur \/ percent_complete(block) > 15))
          => (pc' # "attestor" /\ ~(pc' = "sleep" /\ ret' = "attestor"))]_vars

(* C22 witness: the attestor polled for a proposal that did not come and   *)
(* left the loop past 15 % of the epoch without an attest call.            *)
C22_Witness ==
    /\ pc = "run_task_commit" /\ rc_exit = "attestor" /\ ~stop
    /\ cur = SubnetEpoch(block) /\ percent_complete(block) > 15
    /\ IsNone(consensus_data)
    /\ IsNone(lastAttest)

(* C23: while epoch E lasts, the node does not go on from run_consensus(E) *)
(* to the phases with a propose_attestation or an attest of E that has not *)
(* succeeded: it keeps submitting, once per block.                         *)
C23_RetriesUntilSuccess ==
    (pc = "run_task_commit" /\ ~stop /\ cur = SubnetEpoch(block)) =>
        /\ ~(/\ rc_exit = "proposed"
             /\ ~IsNone(lastPropose) /\ Get(lastPropose).epoch = cur
             /\ Get(lastPropose).stored = 0)
        /\ ~(/\ rc_exit = "attestor"
             /\ ~IsNone(lastAttest) /\ Get(lastAttest).epoch = cur
             /\ ~IsNone(chainConsensus)
             /\ ~did_node_attest(SelfId, Get(chainConsensus)))

(* C24: a step in which a call of the loop body raises leaves the process   *)
(* asleep for one block, to resume at the head of run_forever's loop; and    *)
(* the loop has ended only when the stop event is set.                      *)
C24_ExceptionKeepsLoop ==
    /\ [][raises' # raises =>
             (pc' = "sleep" /\ wake' = block + 1 /\ ret' = "run_forever")]_vars
    /\ [](pc = "exit" => stop)

(* C24 witness: after an exception the loop is in its phases again.         *)
C24_Witness ==
    /\ raises >= 1 /\ ~stop
    /\ pc = "run_task_reveal"
    /\ lastAct.nth = 2

(* C37: a step that invokes verify_and_score_peers, whatever DHT records   *)
(* are present or absent, does not end in run_forever's exception handler  *)
(* (asleep for one block, to re-enter the phase sequence of the epoch).    *)
C37_VerifyNeverRaises ==
    [][(pc = "run_verify" /\ ~stop /\ lastAct' # lastAct /\ lastAct'.phase = 4)
          => ~(pc' = "sleep" /\ ret' = "run_forever")]_vars

(* The process sleeps in run_forever's wait until the subnet epoch the     *)
(* clock shows is over, and has not entered the loop body in that epoch.   *)
SleepsThroughEpoch ==
    /\ pc = "sleep" /\ ret = "run_forever"
    /\ SubnetEpoch(wake) > SubnetEpoch(block)
    /\ cur # SubnetEpoch(block)

(* C38: no epoch is skipped.  With no call raising, while the stop event   *)
(* is not set the started loop is never asleep until the end of a subnet   *)
(* epoch E for which it has not started run_consensus(E), however long the *)
(* phase sequence of epoch E-1 took.                                       *)
C38_NoEpochSkipped ==
    (started /\ last_epoch = cur /\ ~stop /\ raises = 0) => ~SleepsThroughEpoch

(* C19: each of the engine actions call_and_commit_all_tasks (1),          *)
(* reveal_tasks (2), reveal_scores (3) and commit_scores (5) is invoked at *)
(* most once per subnet epoch; and a step that leaves run_task_commit,     *)
(* run_task_reveal or run_reveal_scores after the phase's window has       *)
(* elapsed invokes nothing.                                                *)
C19_Elapsed ==
    \/ pc = "run_task_commit" /\ percent_complete(block) > VERIFIER_COMMIT_DEADLINE
    \/ pc = "run_task_reveal" /\ percent_complete(block) > VERIFIER_REVEAL_DEADLINE
    \/ pc = "run_reveal_scores" /\ percent_complete(block) > SCORES_REVEAL_DEADLINE

C19_NoRetryInEpoch ==
    /\ [](lastAct.phase \in {1, 2, 3, 5} => lastAct.nth <= 1)
    /\ [][C19_Elapsed => (doneEpoch' = doneEpoch /\ done' = done /\ lastAct' = lastAct)]_vars

(* C20: an engine action (task commit 1, task reveal 2, score reveal 3,    *)
(* verify-and-score 4, score commit 5) is started for epoch E only by a    *)
(* step at which the subnet epoch clock shows E.                           *)
C20_ActsOnlyInOwnEpoch ==
    [][lastAct' # lastAct => lastAct'.epoch = SubnetEpoch(block)]_vars

(* C20 witness: call_and_commit_all_tasks for epoch `cur` went on into the *)
(* next epoch, and run_task_reveal has returned without revealing.         *)
C20_Witness ==
    /\ pc = "run_reveal_scores"
    /\ ~stop
    /\ SubnetEpoch(block) # cur
    /\ lastAct.epoch = cur /\ lastAct.phase = 1

----------------------------------------------------------------------------
(* PredSpec: one MockHypertensorCommitReveal instance validating the GET   *)
(* and POST requests of two peers.  The requests come at the blocks where  *)
(* percent_complete is 0, 0.5, 0.55, 0.6 and 0.65: during the epoch in     *)
(* which the instance is created and, more than MAX_EPOCH_HISTORY epochs   *)
(* later, during two epochs in a row.                                      *)
PredElapsed == {0, 10, 11, 12, 13}
PredFirstEpoch == SubnetEpoch(PredStart)
PredLastEpoch == PredFirstEpoch + MAX_EPOCH_HISTORY + 2
AcceptedDom == KeyTypes \X NodeIds

PredInit ==
    /\ block = PredStart
    /\ tracker = <<>>
    /\ accepted = [k \in AcceptedDom |-> 0]
    /\ lastPost = None
    /\ IdleNode /\ IdleAuth /\ IdleWrap /\ IdleSig /\ IdleBoot /\ IdleSrv /\ IdleVsr /\ IdleRest

(* The next block at which a request comes.                                *)
NextRequestBlock(b) ==
    CHOOSE n \in (b + 1)..(b + EpochLen) :
        /\ blocks_elapsed(n) \in PredElapsed
        /\ \A m \in (b + 1)..(n - 1) : blocks_elapsed(m) \notin PredElapsed

PredTick ==
    /\ \/ SubnetEpoch(NextRequestBlock(block)) = SubnetEpoch(block)
       \/ SubnetEpoch(block) \notin {PredFirstEpoch, PredLastEpoch}
    /\ block' = NextRequestBlock(block)
    /\ accepted' = IF SubnetEpoch(block') = SubnetEpoch(block) THEN accepted
                   ELSE [k \in AcceptedDom |-> 0]
    /\ UNCHANGED <<tracker, lastPost, dht, nodeVars, taskVars, chainVars, histVars,
                   authVars,
                   wrapVars, sigVars, bootVars, srvVars, vsrVars, aggVars, jacVars, limVars>>

(* No request comes for MAX_EPOCH_HISTORY whole epochs.                    *)
PredLeap ==
    /\ SubnetEpoch(block) = PredFirstEpoch
    /\ SubnetEpoch(NextRequestBlock(block)) # SubnetEpoch(block)
    /\ block' = NextRequestBlock(block) + MAX_EPOCH_HISTORY * EpochLen
    /\ accepted' = [k \in AcceptedDom |-> 0]
    /\ UNCHANGED <<tracker, lastPost, dht, nodeVars, taskVars, chainVars, histVars,
                   authVars,
                   wrapVars, sigVars, bootVars, srvVars, vsrVars, aggVars, jacVars, limVars>>

(* The keys a peer posts under.  The heartbeats are those of this node in  *)
(* the first epoch; the other peer posts its task commit.                  *)
PostKeys(peer, b) ==
    IF peer = SelfId
    THEN {Key(f, SubnetEpoch(b)) : f \in Families}
         \cup {get_verifier_commit_key(SubnetEpoch(b) - 1), Key("other", SubnetEpoch(b))}
         \cup (IF SubnetEpoch(b) = PredFirstEpoch THEN {NodeKey} ELSE {})
    ELSE {get_verifier_commit_key(SubnetEpoch(b))}

(* Requested lifetimes: the longest allowed for the key, and one second    *)
(* more.                                                                   *)
PostLifetimes(key) ==
    LET longest == IF key.family = "node" THEN MAX_HEART_BEAT_TIME ELSE MAX_COMMIT_TIME
    IN  {longest, longest + 1}

(* __call__(record, DHTRecordRequestType.POST)                             *)
PredPost ==
    /\ \E peer \in NodeIds, has_subkey \in BOOLEAN :
         \E key \in PostKeys(peer, block) : \E life \in PostLifetimes(key) :
           LET expiration_time == get_dht_time(block) + life
               ok == PredicatePost(tracker, key, has_subkey, peer, expiration_time, block)
               key_type == _get_key_type(key, SubnetEpoch(block))
           IN  /\ tracker' = PredicateTracker(tracker, key, has_subkey, peer,
                                              expiration_time, block)
               /\ accepted' = IF ok THEN [accepted EXCEPT ![<<key_type, peer>>] = @ + 1]
                              ELSE accepted
               /\ lastPost' = Some([type |-> "POST", ok |-> ok,
                                     listed |-> key_type # "None"])
    /\ UNCHANGED <<block, dht, nodeVars, taskVars, chainVars, histVars, authVars,
                   wrapVars, sigVars, bootVars, srvVars, vsrVars, aggVars, jacVars, limVars>>

(* extract_peer_id_from_record_validator(record.subkey): the caller, when  *)
(* the subkey carries a public key.                                        *)
extract_peer_id_from_record_validator(has_subkey, peer) ==
    IF has_subkey THEN Some(peer) ELSE None

(* A predicate that runs a GET through the checks of a POST.               *)
PredicateGetGated(trk, key, has_subkey, peer, expiration_time, b) ==
    PredicatePost(trk, key, has_subkey, peer, expiration_time, b)

(* __call__ for a GET: the verdict.  The caller is extracted first, then   *)
(* the request type is looked at; nothing else is.                         *)
PredicateGet(trk, key, has_subkey, peer, expiration_time, b) ==
    LET caller_peer_id == extract_peer_id_from_record_validator(has_subkey, peer)
    IN  ~IsNone(caller_peer_id)

(* __call__(record, DHTRecordRequestType.GET)                              *)
PredGet ==
    /\ \E peer \in NodeIds, has_subkey \in BOOLEAN :
         \E key \in PostKeys(peer, block) :
           LET expiration_time == get_dht_time(block) + MAX_COMMIT_TIME
               ok == PredicateGet(tracker, key, has_subkey, peer, expiration_time, block)
           IN  lastPost' = Some([type |-> "GET", ok |-> ok, has_subkey |-> has_subkey])
    /\ UNCHANGED <<block, tracker, accepted, dht, nodeVars, taskVars, chainVars,
                   histVars, authVars,
                   wrapVars, sigVars, bootVars, srvVars, vsrVars, aggVars, jacVars, limVars>>

PredNext == PredTick \/ PredLeap \/ PredPost \/ PredGet

PredSpec == PredInit /\ [][PredNext]_vars

----------------------------------------------------------------------------
(* Properties of the predicate validator (PredSpec).                       *)

LastIs(type) == ~IsNone(lastPost) /\ Get(lastPost).type = type
LastRejectedPost == LastIs("POST") /\ ~Get(lastPost).ok

(* The windows as the contract words them, p in percentage points.         *)
C3Window(family, p) ==
    CASE family = "verifier_commit" -> p <= 50
      [] family \in {"verifier_reveal", "scores_reveal"} -> 50 < p /\ p <= 60
      [] family = "scores_commit" -> p > 60

(* Verdict on a POST of `peer` under the current-epoch key of `key_type`   *)
(* carrying a public key and the longest lifetime allowed.                 *)
VerdictNow(key_type, peer) ==
    PredicatePost(tracker,
                  IF key_type = "node" THEN NodeKey ELSE Key(key_type, SubnetEpoch(block)),
                  TRUE, peer,
                  get_dht_time(block) + MaxExpiration(key_type), block)

C3_AcceptsIffInWindow ==
    \A f \in Families, peer \in NodeIds :
        accepted[<<f, peer>>] = 0 =>
            (VerdictNow(f, peer) <=> C3Window(f, percent_complete(block)))

C3_AcceptedInWindow ==
    \A f \in Families, peer \in NodeIds :
        accepted'[<<f, peer>>] > accepted[<<f, peer>>] =>
            C3Window(f, percent_complete(block))

C4Limit(key_type) == IF key_type = "node" THEN 100 ELSE 1

(* C4: for each peer and epoch at most `limit` records of a key type are   *)
(* accepted (1 per family, 100 heartbeats); an otherwise valid POST is     *)
(* accepted while fewer than `limit` were and rejected from then on.       *)
C4_QuotaExact ==
    \A key_type \in KeyTypes, peer \in NodeIds :
        /\ accepted[<<key_type, peer>>] <= C4Limit(key_type)
        /\ (key_type = "node" \/ C3Window(key_type, percent_complete(block))) =>
              (VerdictNow(key_type, peer) <=> accepted[<<key_type, peer>>] < C4Limit(key_type))

C4_Witness ==
    /\ accepted[<<"node", SelfId>>] = 100
    /\ accepted[<<"verifier_commit", SelfId>>] = 1
    /\ accepted[<<"verifier_commit", OtherId>>] = 0
    /\ LastRejectedPost

(* The original wording of C34: every GET is allowed.                      *)
C34_EveryGetAllowed == LastIs("GET") => Get(lastPost).ok

C34_GetWithCallerAllowed ==
    (LastIs("GET") /\ Get(lastPost).has_subkey) => Get(lastPost).ok

C34_GetLeavesCounters ==
    (block' = block /\ ~IsNone(lastPost') /\ Get(lastPost').type = "GET")
        => UNCHANGED <<tracker, accepted>>

(* C34: the predicate returns true for every GET on a record whose subkey  *)
(* carries the caller's public key, whatever the key, the epoch, the phase *)
(* and the caller's quota; and a GET changes no counter.                   *)
C34_GetAllowed == []C34_GetWithCallerAllowed /\ [][C34_GetLeavesCounters]_vars

C34_Witness ==
    /\ LastIs("GET") /\ Get(lastPost).has_subkey /\ Get(lastPost).ok
    /\ accepted[<<"verifier_commit", SelfId>>] = 1
    /\ percent_complete(block) > SCORES_REVEAL_DEADLINE

(* Keys outside the whitelist of the epoch of block b: the family keys of  *)
(* the other epochs, and a key of no family.                               *)
UnlistedKeys(b) ==
    {Key(f, e) : f \in Families,
                 e \in ((PredFirstEpoch - 1)..(PredLastEpoch + 1)) \ {SubnetEpoch(b)}}
        \cup {Key("other", SubnetEpoch(b))}

C35_VerdictOnUnlisted ==
    \A key \in UnlistedKeys(block), peer \in NodeIds, has_subkey \in BOOLEAN :
        \A life \in PostLifetimes(key) :
            ~PredicatePost(tracker, key, has_subkey, peer,
                           get_dht_time(block) + life, block)

C36_Idempotent ==
    \A peer \in NodeIds, has_subkey \in BOOLEAN :
        \A key \in PostKeys(peer, block) : \A life \in PostLifetimes(key) :
            LET expiration_time == get_dht_time(block) + life
                after == PredicateTracker(tracker, key, has_subkey, peer,
                                          expiration_time, block)
            IN  PredicatePost(after, key, has_subkey, peer, expiration_time, block)
                    = PredicatePost(tracker, key, has_subkey, peer,
                                    expiration_time, block)

----------------------------------------------------------------------------
(* AuthSpec: one authorizer (a SignatureAuthorizer, or a                   *)
(* ProofOfStakeAuthorizer around it) validating the requests of one        *)
(* client.  Each validate_request call is a coroutine of the server's      *)
(* event loop: it runs from one suspension to the next without another     *)
(* coroutine running in between.                                           *)
_MAX_CLIENT_SERVICER_TIME_DIFF == 60
pos_success_cooldown == 300
pos_fail_cooldown == 300

Nonces == 1..MaxNonce
Slots == {1, 2}         \* the two validate_request coroutines that can be in flight

(* TimedStorage, as the contract describes the recent-nonce set: a timed   *)
(* set whose entries lapse at their expiration time, and whose lapsed      *)
(* entries are not removed while it is frozen.                             *)
TS_remove_outdated(ts, t) == [k \in {j \in DOMAIN ts : ~(ts[j] < t)} |-> ts[k]]
TS_contains_frozen(ts, key) == key \in DOMAIN ts
TS_store(ts, key, expiration_time, t) ==
    TS_remove_outdated([k \in DOMAIN ts \cup {key} |->
                           IF k = key THEN expiration_time ELSE ts[k]], t)

(* Lifetime of a nonce that expires with the clock tolerance.              *)
NonceLifetimeOnce == _MAX_CLIENT_SERVICER_TIME_DIFF

(* validate_request: current_time + _MAX_CLIENT_SERVICER_TIME_DIFF * 3     *)
NonceLifetime == _MAX_CLIENT_SERVICER_TIME_DIFF * 3

(* A validate_request that awaits between the check and the store.         *)
YieldsAlways == TRUE

(* Whether validate_request suspends between do_validate_request and       *)
(* _recent_nonces.store: there is no await that yields to the loop.        *)
YieldsBeforeStore == FALSE

(* The age of a request's stamp on the servicer's clock when its          *)
(* validation is created: none, the tolerance, more than the tolerance,    *)
(* or ahead of the clock by more than the tolerance.                       *)
Ages == {0, _MAX_CLIENT_SERVICER_TIME_DIFF, _MAX_CLIENT_SERVICER_TIME_DIFF + 1,
         0 - (_MAX_CLIENT_SERVICER_TIME_DIFF + 1)}

(* A clock comparison that only looks for stamps in the past.              *)
time_diff_past_only(time, current_time) == current_time - time

(* abs(auth.time - current_time)                                           *)
time_diff(time, current_time) ==
    IF time > current_time THEN time - current_time ELSE current_time - time

(* get_token: expiration_time = now + timedelta(minutes=1)                  *)
TokenLifetime == 60
get_token_expiration_time(t) == t + TokenLifetime

(* The access token of a request lapsed more than the clock tolerance      *)
(* before time t.                                                          *)
token_expired(expiration_time, t) ==
    t - expiration_time > _MAX_CLIENT_SERVICER_TIME_DIFF

(* do_validate_request: the verdict for a request read at time t.          *)
do_validate_request(r, ts, t) ==
    /\ r.signed
    /\ r.addressed
    /\ ~(time_diff(r.time, t) > _MAX_CLIENT_SERVICER_TIME_DIFF)
    /\ ~TS_contains_frozen(ts, r.nonce)
    /\ r.nonce \notin DOMAIN TS_remove_outdated(ts, t)

(* do_validate_request: the nonce set it leaves behind (the membership     *)
(* test after the freeze removes the lapsed entries).                      *)
do_validate_request_nonces(r, ts, t) ==
    IF /\ r.signed /\ r.addressed
       /\ ~(time_diff(r.time, t) > _MAX_CLIENT_SERVICER_TIME_DIFF)
       /\ ~TS_contains_frozen(ts, r.nonce)
    THEN TS_remove_outdated(ts, t)
    ELSE ts

(* do_validate_request, line 124-126: the difference of the clocks when    *)
(* the request is turned down for it (0 otherwise).                        *)
clocks_not_synchronized(r, t) ==
    IF /\ r.signed /\ r.addressed
       /\ time_diff(r.time, t) > _MAX_CLIENT_SERVICER_TIME_DIFF
    THEN r.time - t
    ELSE 0

(* The two caches of ProofOfStake for the client's peer: the time of the   *)
(* entry, 0 when the peer has none (dict.get(peer_id, 0)).                 *)
get_peer_id_last_success(cache) == cache.last_success
get_peer_id_last_fail(cache) == cache.last_fail

update_peer_id_success(cache, t) ==
    [cache EXCEPT !.last_success = t, !.last_fail = 0]

(* Recording a failure without the pop of the success entry.               *)
update_peer_id_fail_keep_success(cache, t) ==
    [cache EXCEPT !.last_fail = t]

update_peer_id_fail(cache, t) ==
    [cache EXCEPT !.last_fail = t, !.last_success = 0]

(* proof_of_stake without the look into the failure cache.                 *)
proof_of_stake_no_fail_cache(cache, t, staked) ==
    IF get_peer_id_last_success(cache) # 0
       /\ t - get_peer_id_last_success(cache) < pos_success_cooldown
    THEN [ok |-> TRUE, cache |-> cache, queried |-> FALSE]
    ELSE IF staked
    THEN [ok |-> TRUE, cache |-> update_peer_id_success(cache, t), queried |-> TRUE]
    ELSE [ok |-> FALSE, cache |-> update_peer_id_fail(cache, t), queried |-> TRUE]

(* ProofOfStake.proof_of_stake for the client's peer: the verdict, the     *)
(* caches it leaves, and whether it asked the chain (`staked` is the       *)
(* chain's answer).                                                        *)
proof_of_stake(cache, t, staked) ==
    IF get_peer_id_last_fail(cache) # 0
       /\ t - get_peer_id_last_fail(cache) < pos_fail_cooldown
    THEN [ok |-> FALSE, cache |-> cache, queried |-> FALSE]
    ELSE IF get_peer_id_last_success(cache) # 0
            /\ t - get_peer_id_last_success(cache) < pos_success_cooldown
    THEN [ok |-> TRUE, cache |-> cache, queried |-> FALSE]
    ELSE IF staked
    THEN [ok |-> TRUE, cache |-> update_peer_id_success(cache, t), queried |-> TRUE]
    ELSE [ok |-> FALSE, cache |-> update_peer_id_fail(cache, t), queried |-> TRUE]

(* The record of the chain queries of proof_of_stake: the last query (its  *)
(* time, its answer, the answer of the query before it) and whether the    *)
(* last call was answered from a cache.                                    *)
QueryLog(log, pos, t) ==
    IF pos.queried
    THEN Some([at |-> t, result |-> pos.ok, cached |-> FALSE,
               before |-> IF IsNone(log) THEN "none"
                          ELSE IF Get(log).result THEN "staked" ELSE "not_staked"])
    ELSE IF IsNone(log) THEN log
    ELSE Some([Get(log) EXCEPT !.cached = TRUE])

(* A validate_request that stores the nonce before the stake is proved.    *)
validate_request_nonces_before_stake(ts, r, ok, t) ==
    TS_store(ts, r.nonce, r.current_time + NonceLifetime, t)

(* validate_request after do_validate_request passed: the nonce set it     *)
(* leaves; ok is the verdict of the stake check (true when there is none). *)
validate_request_nonces(ts, r, ok, t) ==
    IF ok THEN TS_store(ts, r.nonce, r.current_time + NonceLifetime, t) ELSE ts

FreeSlot == [pc |-> "free"]
(* A coroutine that has its verdict: the request is no longer needed.      *)
Done(r, result, diff, t) ==
    [pc |-> "done", result |-> result, twins |-> r.twins, diff |-> diff,
     token_expired |-> r.signed /\ token_expired(r.expiration_time, t)]
InFlight(s) == inflight[s].pc \in {"start", "checked"}
SameRequest(a, b) ==
    /\ a.nonce = b.nonce /\ a.time = b.time
    /\ a.signed = b.signed /\ a.addressed = b.addressed
    /\ a.expiration_time = b.expiration_time

AuthInit ==
    /\ now = AuthStart
    /\ recent_nonces = <<>>
    /\ inflight = [s \in Slots |-> FreeSlot]
    /\ running = 0
    /\ \E kind \in {"signature", "proof_of_stake"} :
         pos_cache = [kind |-> kind, last_success |-> 0, last_fail |-> 0]
    /\ authLog = [at |-> <<>>, gap |-> None, query |-> None]
    /\ block = 0 /\ tracker = <<>> /\ IdleNode /\ IdlePred /\ IdleWrap /\ IdleSig /\ IdleBoot /\ IdleSrv /\ IdleVsr /\ IdleRest

(* The wall clock.  The validations read it once, without suspending      *)
(* before, so those created at one reading end at that reading; the time   *)
(* a request spent on its way is in the age of its stamp.                  *)
AuthTick ==
    /\ running = 0
    /\ \A s \in Slots : inflight[s].pc = "free"
    /\ now + AuthStep <= AuthStart + MaxElapsed
    /\ now' = now + AuthStep
    /\ UNCHANGED <<recent_nonces, inflight, running, pos_cache, authLog, block,
                   nodeVars, taskVars, dhtVars, chainVars, histVars, predVars,
                   wrapVars, sigVars, bootVars, srvVars, vsrVars, aggVars, jacVars, limVars>>

(* A request arrives and a validate_request coroutine is created for it.   *)
AuthBegin ==
    /\ \E s \in Slots :
         /\ inflight[s].pc = "free"
         /\ \E nonce \in Nonces, age \in Ages,
               signed \in BOOLEAN, addressed \in BOOLEAN, fresh_token \in BOOLEAN :
              /\ signed \/ addressed
              \* the stamp and the nonce of a request that fails the signature
              \* or the address check are never read
              /\ (signed /\ addressed) \/ (age = 0 /\ nonce = 1)
              \* a token that is not the one sign_request has just made: only
              \* on a request that is otherwise in order
              /\ fresh_token \/ (signed /\ addressed /\ age = 0)
              /\ LET r == [pc |-> "start", nonce |-> nonce, time |-> now - age,
                        signed |-> signed, addressed |-> addressed,
                        expiration_time |->
                            IF fresh_token
                            THEN get_token_expiration_time(now - age)
                            ELSE now - (_MAX_CLIENT_SERVICER_TIME_DIFF + 1),
                        current_time |-> 0, twins |-> {}]
                     tw == {o \in Slots \ {s} : InFlight(o) /\ SameRequest(inflight[o], r)}
                 IN  inflight' = [o \in Slots |->
                                    IF o = s THEN [r EXCEPT !.twins = tw]
                                    ELSE IF o \in tw
                                         THEN [inflight[o] EXCEPT !.twins = @ \cup {s}]
                                         ELSE inflight[o]]
    /\ UNCHANGED <<now, recent_nonces, running, pos_cache, authLog, block,
                   nodeVars, taskVars, dhtVars, chainVars, histVars, predVars,
                   wrapVars, sigVars, bootVars, srvVars, vsrVars, aggVars, jacVars, limVars>>

(* validate_request up to its first possible suspension: the whole of      *)
(* do_validate_request.                                                    *)
AuthCheck ==
    /\ running = 0
    /\ \E s \in Slots :
         /\ inflight[s].pc = "start"
         /\ recent_nonces' = do_validate_request_nonces(inflight[s], recent_nonces, now)
         /\ IF do_validate_request(inflight[s], recent_nonces, now)
            THEN /\ inflight' = [inflight EXCEPT ![s].pc = "checked",
                                                 ![s].current_time = now]
                 /\ running' = IF YieldsBeforeStore THEN 0 ELSE s
            ELSE /\ inflight' = [inflight EXCEPT ![s] =
                                 Done(@, FALSE, clocks_not_synchronized(@, now), now)]
                 /\ running' = 0
    /\ UNCHANGED <<now, pos_cache, authLog, block,
                   nodeVars, taskVars, dhtVars, chainVars, histVars, predVars,
                   wrapVars, sigVars, bootVars, srvVars, vsrVars, aggVars, jacVars, limVars>>

(* The rest of validate_request: the proof of stake (ProofOfStakeAuthorizer *)
(* only) and the store of the nonce.                                       *)
AuthStore ==
    /\ \E s \in Slots, staked \in BOOLEAN :
         /\ inflight[s].pc = "checked"
         /\ running \in {0, s}
         /\ LET r == inflight[s]
                pos == IF pos_cache.kind = "proof_of_stake"
                       THEN proof_of_stake(pos_cache, now, staked)
                       ELSE [ok |-> TRUE, cache |-> pos_cache, queried |-> FALSE]
                query == IF pos_cache.kind = "proof_of_stake"
                         THEN QueryLog(authLog.query, pos, now)
                         ELSE authLog.query
            IN  /\ pos_cache' = pos.cache
                /\ inflight' = [inflight EXCEPT ![s] = Done(@, pos.ok, 0, now)]
                /\ IF pos.ok
                   THEN /\ recent_nonces' = validate_request_nonces(recent_nonces, r,
                                                                    pos.ok, now)
                        /\ authLog' =
                             [at |-> [n \in DOMAIN authLog.at \cup {r.nonce} |->
                                        IF n = r.nonce THEN now ELSE authLog.at[n]],
                              gap |-> IF r.nonce \in DOMAIN authLog.at
                                      THEN Some(now - authLog.at[r.nonce])
                                      ELSE authLog.gap,
                              query |-> query]
                   ELSE /\ recent_nonces' = validate_request_nonces(recent_nonces, r,
                                                                    pos.ok, now)
                        /\ authLog' = [authLog EXCEPT !.query = query]
    /\ running' = 0
    /\ UNCHANGED <<now, block, nodeVars, taskVars, dhtVars, chainVars, histVars,
                   predVars,
                   wrapVars, sigVars, bootVars, srvVars, vsrVars, aggVars, jacVars, limVars>>

(* The verdict is returned to the RPC layer.                               *)
AuthReturn ==
    /\ \E s \in Slots :
         /\ inflight[s].pc = "done"
         /\ inflight' = [o \in Slots |->
                           IF o = s THEN FreeSlot
                           ELSE IF inflight[o].pc = "free" THEN inflight[o]
                           ELSE [inflight[o] EXCEPT !.twins = @ \ {s}]]
    /\ UNCHANGED <<now, recent_nonces, running, pos_cache, authLog, block,
                   nodeVars, taskVars, dhtVars, chainVars, histVars, predVars,
                   wrapVars, sigVars, bootVars, srvVars, vsrVars, aggVars, jacVars, limVars>>

AuthNext == AuthTick \/ AuthBegin \/ AuthCheck \/ AuthStore \/ AuthReturn

AuthSpec == AuthInit /\ [][AuthNext]_vars

----------------------------------------------------------------------------
(* Properties of the authorizer (AuthSpec).                                *)

(* C9: a nonce accepted by validate_request is not accepted again while    *)
(* fewer than 3 x 60 seconds have passed since it was accepted; later it   *)
(* can be.                                                                 *)
C9_NoReplayInWindow ==
    ~IsNone(authLog.gap) => Get(authLog.gap) >= 3 * 60

C9_Witness ==
    /\ ~IsNone(authLog.gap)
    /\ Get(authLog.gap) >= 3 * 60
    /\ \E s \in Slots : inflight[s].pc = "done" /\ inflight[s].result

(* C10: of two validations of the same signed request that were in flight  *)
(* at the same time, at most one returns true.                             *)
C10_AtMostOneTwinAccepted ==
    \A a, b \in Slots :
        (/\ a # b
         /\ inflight[a].pc = "done" /\ inflight[b].pc = "done"
         /\ b \in inflight[a].twins)
        => ~(inflight[a].result /\ inflight[b].result)

C10_Witness ==
    \E a, b \in Slots :
        /\ a # b
        /\ inflight[a].pc = "done" /\ inflight[b].pc = "done"
        /\ b \in inflight[a].twins
        /\ inflight[a].result /\ ~inflight[b].result
        /\ recent_nonces # <<>>

(* C11: a request whose stamp differs from the validator's clock by more   *)
(* than 60 seconds, earlier or later, is turned down by validate_request   *)
(* whatever the recent-nonce set holds: the step that ends its check       *)
(* leaves it done with the verdict false.                                  *)
C11_SkewedRequestRejected ==
    [][\A s \in Slots :
          (/\ inflight[s].pc = "start"
           /\ inflight'[s].pc # "start"
           /\ \/ inflight[s].time - now > 60
              \/ now - inflight[s].time > 60)
          => (inflight'[s].pc = "done" /\ ~inflight'[s].result)]_vars

C11_Witness ==
    \E a, b \in Slots :
        /\ inflight[a].pc = "done" /\ ~inflight[a].result /\ inflight[a].diff > 60
        /\ inflight[b].pc = "done" /\ ~inflight[b].result /\ inflight[b].diff < 0 - 60

(* C12: validate_request does not accept a correctly signed request whose  *)
(* access token expired more than the clock tolerance before the time of   *)
(* the validation.                                                         *)
C12_ExpiredTokenRejected ==
    \A s \in Slots :
        (inflight[s].pc = "done" /\ inflight[s].token_expired) => ~inflight[s].result

(* C15: while fewer than 300 seconds have passed since proof_of_stake      *)
(* asked the chain about the peer, every proof_of_stake call for the peer  *)
(* gives the answer of that query and asks the chain nothing.              *)
C15_CachedWithinCooldown ==
    [][\A s \in Slots :
          (/\ pos_cache.kind = "proof_of_stake"
           /\ inflight[s].pc = "checked" /\ inflight'[s].pc = "done"
           /\ ~IsNone(authLog.query)
           /\ now < Get(authLog.query).at + 300)
          => /\ inflight'[s].result = Get(authLog.query).result
             /\ authLog'.query = Some([Get(authLog.query) EXCEPT !.cached = TRUE])]_vars

C15_Witness ==
    /\ ~IsNone(authLog.query)
    /\ ~Get(authLog.query).result /\ Get(authLog.query).cached
    /\ now > Get(authLog.query).at
    /\ \E s \in Slots : inflight[s].pc = "done" /\ ~inflight[s].result

(* C16: the peer is never in the success cache and in the failure cache    *)
(* of ProofOfStake at once.                                                *)
C16_CachesDisjoint ==
    pos_cache.kind = "proof_of_stake" =>
        ~(get_peer_id_last_success(pos_cache) # 0 /\ get_peer_id_last_fail(pos_cache) # 0)

C16_Witness ==
    /\ pos_cache.kind = "proof_of_stake"
    /\ get_peer_id_last_fail(pos_cache) # 0 /\ get_peer_id_last_success(pos_cache) = 0
    /\ ~IsNone(authLog.query) /\ Get(authLog.query).before = "staked"

(* The nonces of a timed set that have not lapsed at time t.               *)
LiveNonces(ts, t) == DOMAIN TS_remove_outdated(ts, t)

(* A step in which a validation ends with the verdict `result`.            *)
EndsWith(result) ==
    \E s \in Slots : /\ InFlight(s) /\ inflight'[s].pc = "done"
                     /\ inflight'[s].result = result

C39_RejectionKeepsSet == EndsWith(FALSE) => recent_nonces' = recent_nonces

C39_OnlyAcceptanceStores ==
    ~EndsWith(TRUE) =>
        /\ DOMAIN recent_nonces' \subseteq DOMAIN recent_nonces
        /\ \A n \in DOMAIN recent_nonces' : recent_nonces'[n] = recent_nonces[n]
        /\ LiveNonces(recent_nonces', now) = LiveNonces(recent_nonces, now)

----------------------------------------------------------------------------
(* WrapSpec: one call at a time through an RPC wrapper (AuthRPCWrapper or  *)
(* AuthRPCWrapperStreamer) that has an authorizer or none.  The verdicts   *)
(* of the authorizer on the request and on each response are inputs.       *)
CLIENT == "CLIENT"
SERVICER == "SERVICER"

(* What the wrapped rpc_* method of the stub is: a coroutine that returns  *)
(* one response, an async generator function, or a coroutine that returns  *)
(* an async generator.                                                     *)
MethodKinds(wrapper) ==
    IF wrapper = "AuthRPCWrapper" THEN {"coroutine"}
    ELSE {"coroutine", "asyncgenfunction", "coroutine_asyncgen"}

(* The responses of the method, each with the verdict validate_response    *)
(* would give on it.                                                       *)
Responses(kind) ==
    IF kind = "coroutine" THEN [1..1 -> BOOLEAN]
    ELSE IF kind = "coroutine_asyncgen"
    THEN UNION {[1..n -> BOOLEAN] : n \in 1..MaxChunks}
    ELSE UNION {[1..n -> BOOLEAN] : n \in 0..MaxChunks}

(* A servicer-side wrapper that calls the method whatever the verdict.     *)
request_refused_never(authorizer, role, request_valid) == FALSE

(* `if not await authorizer.validate_request(request): return`             *)
request_refused(authorizer, role, request_valid) ==
    authorizer /\ role = SERVICER /\ ~request_valid

(* `if not await authorizer.validate_response(response, request)`          *)
response_refused(authorizer, role, response_valid) ==
    authorizer /\ role = CLIENT /\ ~response_valid

WrapInit ==
    /\ rpc = [pc |-> "idle"]
    /\ block = 0 /\ tracker = <<>> /\ IdleNode /\ IdlePred /\ IdleAuth /\ IdleSig
    /\ IdleBoot /\ IdleSrv /\ IdleVsr /\ IdleRest

(* A caller invokes wrapper.rpc_*(request): __getattribute__ picks the     *)
(* wrapping function from what the method is.                              *)
WrapCall ==
    /\ rpc.pc = "idle"
    /\ \E wrapper \in {"AuthRPCWrapper", "AuthRPCWrapperStreamer"},
          role \in {CLIENT, SERVICER}, authorizer \in BOOLEAN,
          request_valid \in BOOLEAN :
         \E kind \in MethodKinds(wrapper) :
           \E responses \in Responses(kind) :
             /\ authorizer \/ request_valid
             /\ rpc' = [pc |-> "request", wrapper |-> wrapper, role |-> role,
                        authorizer |-> authorizer, kind |-> kind,
                        request_valid |-> request_valid, responses |-> responses,
                        invoked |-> FALSE, i |-> 1, validated |-> {},
                        delivered |-> <<>>, result |-> "pending"]
    /\ UNCHANGED <<block, nodeVars, taskVars, dhtVars, chainVars, histVars,
                   predVars, authVars, sigVars, bootVars, srvVars, vsrVars, aggVars, jacVars, limVars>>

(* The wrapper before the method: sign_request as a client,                *)
(* validate_request as a servicer.                                         *)
WrapRequest ==
    /\ rpc.pc = "request"
    /\ IF request_refused(rpc.authorizer, rpc.role, rpc.request_valid)
       THEN rpc' = [rpc EXCEPT !.pc = "done",
                               !.result = IF rpc.kind = "asyncgenfunction"
                                          THEN "stream" ELSE "None"]
       ELSE rpc' = [rpc EXCEPT !.pc = "method"]
    /\ UNCHANGED <<block, nodeVars, taskVars, dhtVars, chainVars, histVars,
                   predVars, authVars, sigVars, bootVars, srvVars, vsrVars, aggVars, jacVars, limVars>>

(* `method(request, *args, **kwargs)` is called.                           *)
WrapMethod ==
    /\ rpc.pc = "method"
    /\ rpc' = [rpc EXCEPT !.invoked = TRUE,
                          !.pc = CASE rpc.kind = "coroutine" -> "response"
                                   [] rpc.kind = "asyncgenfunction" -> "iterate"
                                   [] OTHER -> IF rpc.authorizer /\ rpc.role = CLIENT
                                               THEN "peek_first" ELSE "drain"]
    /\ UNCHANGED <<block, nodeVars, taskVars, dhtVars, chainVars, histVars,
                   predVars, authVars, sigVars, bootVars, srvVars, vsrVars, aggVars, jacVars, limVars>>

(* wrapped_rpc / wrapped_unary_rpc after the method returned one response: *)
(* sign_response as a servicer, validate_response as a client.             *)
WrapResponse ==
    /\ rpc.pc = "response"
    /\ IF response_refused(rpc.authorizer, rpc.role, rpc.responses[1])
       THEN rpc' = [rpc EXCEPT !.pc = "done", !.result = "None",
                               !.validated = IF rpc.authorizer /\ rpc.role = CLIENT
                                             THEN {1} ELSE {}]
       ELSE rpc' = [rpc EXCEPT !.pc = "done", !.result = "response",
                               !.delivered = <<1>>,
                               !.validated = IF rpc.authorizer /\ rpc.role = CLIENT
                                             THEN {1} ELSE {}]
    /\ UNCHANGED <<block, nodeVars, taskVars, dhtVars, chainVars, histVars,
                   predVars, authVars, sigVars, bootVars, srvVars, vsrVars, aggVars, jacVars, limVars>>

(* wrapped_stream_rpc, one round of `async for response in method(...)`.   *)
WrapIterate ==
    /\ rpc.pc = "iterate"
    /\ IF rpc.i > Len(rpc.responses)
       THEN rpc' = [rpc EXCEPT !.pc = "done", !.result = "stream"]
       ELSE rpc' = [rpc EXCEPT
                      !.i = @ + 1,
                      !.validated = IF rpc.authorizer /\ rpc.role = CLIENT
                                    THEN @ \cup {rpc.i} ELSE @,
                      !.delivered =
                          IF response_refused(rpc.authorizer, rpc.role,
                                              rpc.responses[rpc.i])
                          THEN @ ELSE Append(@, rpc.i)]
    /\ UNCHANGED <<block, nodeVars, taskVars, dhtVars, chainVars, histVars,
                   predVars, authVars, sigVars, bootVars, srvVars, vsrVars, aggVars, jacVars, limVars>>

(* wrapped_unary_rpc as a client whose response is an async generator:     *)
(* peek_first, validate_response on the first response, and the generator  *)
(* of all responses handed to the caller.                                  *)
WrapPeekFirst ==
    /\ rpc.pc = "peek_first"
    /\ IF response_refused(rpc.authorizer, rpc.role, rpc.responses[1])
       THEN rpc' = [rpc EXCEPT !.pc = "done", !.result = "None", !.validated = {1}]
       ELSE rpc' = [rpc EXCEPT !.pc = "drain", !.validated = {1}]
    /\ UNCHANGED <<block, nodeVars, taskVars, dhtVars, chainVars, histVars,
                   predVars, authVars, sigVars, bootVars, srvVars, vsrVars, aggVars, jacVars, limVars>>

(* The caller reads the generator it was handed, response by response.     *)
WrapDrain ==
    /\ rpc.pc = "drain"
    /\ IF rpc.i > Len(rpc.responses)
       THEN rpc' = [rpc EXCEPT !.pc = "done", !.result = "stream"]
       ELSE rpc' = [rpc EXCEPT !.i = @ + 1, !.delivered = Append(@, rpc.i)]
    /\ UNCHANGED <<block, nodeVars, taskVars, dhtVars, chainVars, histVars,
                   predVars, authVars, sigVars, bootVars, srvVars, vsrVars, aggVars, jacVars, limVars>>

(* The call is over; the wrapper keeps nothing of it.                      *)
WrapReturn ==
    /\ rpc.pc = "done"
    /\ rpc' = [pc |-> "idle"]
    /\ UNCHANGED <<block, nodeVars, taskVars, dhtVars, chainVars, histVars,
                   predVars, authVars, sigVars, bootVars, srvVars, vsrVars, aggVars, jacVars, limVars>>

WrapNext ==
    \/ WrapCall
    \/ WrapRequest
    \/ WrapMethod
    \/ WrapResponse
    \/ WrapIterate
    \/ WrapPeekFirst
    \/ WrapDrain
    \/ WrapReturn

WrapSpec == WrapInit /\ [][WrapNext]_vars

----------------------------------------------------------------------------
(* Properties of the RPC wrappers (WrapSpec).                              *)

C13Scope ==
    /\ rpc.pc # "idle"
    /\ rpc.wrapper = "AuthRPCWrapperStreamer" /\ rpc.authorizer /\ rpc.role = CLIENT
    /\ rpc.kind \in {"asyncgenfunction", "coroutine_asyncgen"}

(* C13: as a client of a streamed RPC, AuthRPCWrapperStreamer validates    *)
(* the first response only; when the first response fails validation the   *)
(* caller is handed no response of the stream; when it passes, the caller  *)
(* is handed every response of the stream.                                 *)
C13_FirstResponseOnly ==
    C13Scope =>
        /\ rpc.validated \subseteq {1}
        /\ (Len(rpc.responses) > 0 /\ ~rpc.responses[1]) => rpc.delivered = <<>>
        /\ (rpc.pc = "done" /\ Len(rpc.responses) > 0 /\ rpc.responses[1])
              => rpc.delivered = [k \in 1..Len(rpc.responses) |-> k]

(* C14: as a servicer, when validate_request returns false the wrapped     *)
(* method is never called and the caller gets None or a stream without     *)
(* responses.                                                              *)
C14_RefusedRequestNotServed ==
    (/\ rpc.pc # "idle" /\ rpc.authorizer /\ rpc.role = SERVICER
     /\ ~rpc.request_valid)
    => /\ ~rpc.invoked
       /\ rpc.delivered = <<>>
       /\ rpc.pc = "done" => rpc.result \in {"None", "stream"}

C14_Witness ==
    /\ rpc.pc = "done" /\ rpc.authorizer /\ rpc.role = SERVICER
    /\ ~rpc.request_valid /\ ~rpc.invoked
    /\ rpc.wrapper = "AuthRPCWrapperStreamer" /\ rpc.kind = "asyncgenfunction"
    /\ Len(rpc.responses) > 0 /\ rpc.result = "stream"

----------------------------------------------------------------------------
(* SigSpec: SignatureValidator on DHT records, and a swarm of DHT nodes    *)
(* that run it.  A record is (key, subkey, value, expiration_time); of     *)
(* key and subkey the model keeps the [owner:...] tags they contain, of    *)
(* the value its payload and the [signature:...] tags it contains.         *)
Keypairs == 1..MaxKeys
Owner == 1
Payloads == {"value", "fake_value"}
Expirations == {10, 11}
OwnerTags == {<<>>} \cup {<<k>> : k \in Keypairs}

(* _PUBLIC_KEY_RE.findall on key and subkey.                               *)
public_keys(record) == record.key \o record.subkey

(* _SIGNATURE_RE.findall(record.value)                                     *)
signatures(record) == record.value.sigs

(* strip_value: the value without its signature tags.                      *)
strip_value(record) == [payload |-> record.value.payload, sigs |-> <<>>]

(* _serialize_record: MSGPackSerializer.dumps(dataclasses.astuple(record)) *)
_serialize_record(record) ==
    <<record.key, record.subkey, record.value, record.expiration_time>>

(* A signature of private key k on a message, and its verification under   *)
(* public key P: it verifies for the key and the message it was made for.  *)
sign(k, message) == [signer |-> k, message |-> message]
verify(P, message, signature) ==
    signature.signer = P /\ signature.message = message
INVALID_BYTES == [signer |-> 0, message |-> <<>>]

(* A validate that looks for the signature tag and does not verify it.     *)
validate_unverified(record) ==
    IF public_keys(record) = <<>> THEN TRUE
    ELSE IF Cardinality({public_keys(record)[i] : i \in DOMAIN public_keys(record)}) > 1
    THEN FALSE
    ELSE Len(signatures(record)) = 1

(* SignatureValidator.validate                                             *)
validate(record) ==
    IF public_keys(record) = <<>> THEN TRUE
    ELSE IF Cardinality({public_keys(record)[i] : i \in DOMAIN public_keys(record)}) > 1
    THEN FALSE
    ELSE IF Len(signatures(record)) # 1 THEN FALSE
    ELSE verify(public_keys(record)[1],
                _serialize_record([record EXCEPT !.value = strip_value(record)]),
                signatures(record)[1])

(* SignatureValidator(private key k).sign_value: the value to publish.     *)
sign_value(k, record) ==
    IF <<k>> # record.key /\ <<k>> # record.subkey
    THEN record.value
    ELSE [record.value EXCEPT !.sigs = Append(@, sign(k, _serialize_record(record)))]

NoProvenance == [signer |-> 0, payload |-> "", expiration_time |-> 0, clean |-> FALSE]

SigInit ==
    /\ \E mode \in {"validator", "swarm"} :
         swarm = [mode |-> mode,
                  record |-> None, provenance |-> NoProvenance, verdict |-> "none",
                  stored |-> None, signed |-> {}, last |-> None, owner_up |-> TRUE]
    /\ block = 0 /\ tracker = <<>> /\ IdleNode /\ IdlePred /\ IdleAuth /\ IdleWrap
    /\ IdleBoot /\ IdleSrv /\ IdleVsr /\ IdleRest

(* A plain record, with or without owner tags in its key and subkey.       *)
SigNewRecord ==
    /\ swarm.mode = "validator"
    /\ \E key \in OwnerTags, subkey \in OwnerTags,
          payload \in Payloads, expiration_time \in Expirations :
         swarm' = [swarm EXCEPT
                     !.record = Some([key |-> key, subkey |-> subkey,
                                      value |-> [payload |-> payload, sigs |-> <<>>],
                                      expiration_time |-> expiration_time]),
                     !.provenance = NoProvenance,
                     !.verdict = "none"]
    /\ UNCHANGED <<block, nodeVars, taskVars, dhtVars, chainVars, histVars,
                   predVars, authVars, wrapVars, bootVars, srvVars, vsrVars, aggVars, jacVars, limVars>>

(* dataclasses.replace(record, value=validator.sign_value(record)) by the  *)
(* validator that holds private key k.                                     *)
SigSignValue ==
    /\ swarm.mode = "validator"
    /\ ~IsNone(swarm.record)
    /\ Len(signatures(Get(swarm.record))) < MaxSigs
    /\ \E k \in Keypairs :
         LET record == Get(swarm.record)
             value == sign_value(k, record)
         IN swarm' = [swarm EXCEPT
                        !.record = Some([record EXCEPT !.value = value]),
                        !.provenance =
                            IF value = record.value THEN @
                            ELSE [signer |-> k, payload |-> record.value.payload,
                                  expiration_time |-> record.expiration_time,
                                  clean |-> signatures(record) = <<>>],
                        !.verdict = "none"]
    /\ UNCHANGED <<block, nodeVars, taskVars, dhtVars, chainVars, histVars,
                   predVars, authVars, wrapVars, bootVars, srvVars, vsrVars, aggVars, jacVars, limVars>>

(* A signature tag made with private key k by its holder, whatever the     *)
(* owner tags of the record are.                                           *)
SigForge ==
    /\ swarm.mode = "validator"
    /\ ~IsNone(swarm.record)
    /\ Len(signatures(Get(swarm.record))) < MaxSigs
    /\ \E k \in Keypairs :
         LET record == Get(swarm.record) IN
         swarm' = [swarm EXCEPT
                     !.record = Some([record EXCEPT !.value.sigs =
                                        Append(@, sign(k, _serialize_record(record)))]),
                     !.provenance = [signer |-> k, payload |-> record.value.payload,
                                     expiration_time |-> record.expiration_time,
                                     clean |-> signatures(record) = <<>>],
                     !.verdict = "none"]
    /\ UNCHANGED <<block, nodeVars, taskVars, dhtVars, chainVars, histVars,
                   predVars, authVars, wrapVars, bootVars, srvVars, vsrVars, aggVars, jacVars, limVars>>

(* A change to the record made without any private key: another payload,   *)
(* another expiration time, or an appended signature tag of invalid bytes. *)
SigTamper ==
    /\ swarm.mode = "validator"
    /\ ~IsNone(swarm.record)
    /\ LET record == Get(swarm.record) IN
       \E changed \in
            {[record EXCEPT !.value.payload = p] : p \in Payloads \ {record.value.payload}}
            \cup {[record EXCEPT !.expiration_time = e] :
                       e \in Expirations \ {record.expiration_time}}
            \cup {[record EXCEPT !.value.sigs = Append(@, INVALID_BYTES)] :
                       x \in IF Len(signatures(record)) < MaxSigs THEN {0} ELSE {}} :
          swarm' = [swarm EXCEPT !.record = Some(changed), !.verdict = "none"]
    /\ UNCHANGED <<block, nodeVars, taskVars, dhtVars, chainVars, histVars,
                   predVars, authVars, wrapVars, bootVars, srvVars, vsrVars, aggVars, jacVars, limVars>>

(* receiver_validator.validate(record, DHTRecordRequestType.POST)          *)
SigValidate ==
    /\ swarm.mode = "validator"
    /\ ~IsNone(swarm.record)
    /\ swarm.verdict = "none"
    /\ swarm' = [swarm EXCEPT
                   !.verdict = IF validate(Get(swarm.record)) THEN "accept" ELSE "reject"]
    /\ UNCHANGED <<block, nodeVars, taskVars, dhtVars, chainVars, histVars,
                   predVars, authVars, wrapVars, bootVars, srvVars, vsrVars, aggVars, jacVars, limVars>>

(* The swarm of test_dhtnode_signatures: each DHT node runs a              *)
(* SignatureValidator with its own private key, and the record written is  *)
(* key "key", subkey "protected_subkey" + the owner's public key tag.      *)
ProtectedRecord(value, expiration_time) ==
    [key |-> <<>>, subkey |-> <<Owner>>, value |-> value,
     expiration_time |-> expiration_time]

(* The values node n can hand to store(): any payload; a payload with a    *)
(* signature tag of its own making (invalid bytes, or a signature by its   *)
(* own private key); and bytes it has read from the DHT, that is a value   *)
(* the owner published.                                                    *)
Submitted(n, expiration_time, published) ==
    {[payload |-> p, sigs |-> <<>>] : p \in Payloads}
    \cup {[payload |-> p, sigs |-> <<INVALID_BYTES>>] : p \in Payloads}
    \cup {[payload |-> p,
           sigs |-> <<sign(n, _serialize_record(
                        ProtectedRecord([payload |-> p, sigs |-> <<>>], expiration_time)))>>] :
              p \in IF n = Owner THEN {} ELSE Payloads}
    \cup {r.value : r \in IF n = Owner THEN {} ELSE published}

(* node.store(key, value, expiration_time, subkey): the issuing node's     *)
(* validator signs the value, the nodes that are to hold the record        *)
(* validate it, and store() returns whether the record was stored.  A      *)
(* valid record can still be refused by the storage itself.  swarm.signed  *)
(* keeps what the owner has signed and published, which the other nodes    *)
(* have then seen.                                                         *)
SwarmStore ==
    /\ swarm.mode = "swarm"
    /\ \E n \in Keypairs, expiration_time \in Expirations, kept \in BOOLEAN :
         /\ n = Owner => swarm.owner_up
         /\ \E value \in Submitted(n, expiration_time, swarm.signed) :
              LET record == ProtectedRecord(value, expiration_time)
                  signed == [record EXCEPT !.value = sign_value(n, record)]
                  ok == validate(signed) /\ kept
                  entry == [value |-> signed.value, expiration_time |-> expiration_time]
              IN swarm' = [swarm EXCEPT
                             !.stored = IF ok THEN Some(entry) ELSE @,
                             !.signed = IF n = Owner /\ ok THEN @ \cup {entry} ELSE @,
                             !.last = Some([by |-> n, ok |-> ok, before |-> swarm.stored,
                                            owner_signed |-> entry \in swarm.signed,
                                            owner_up |-> swarm.owner_up])]
    /\ UNCHANGED <<block, nodeVars, taskVars, dhtVars, chainVars, histVars,
                   predVars, authVars, wrapVars, bootVars, srvVars, vsrVars, aggVars, jacVars, limVars>>

(* await bob.shutdown(): the owner leaves the swarm.                                                 *)
SwarmShutdown ==
    /\ swarm.mode = "swarm"
    /\ swarm.owner_up
    /\ swarm' = [swarm EXCEPT !.owner_up = FALSE]
    /\ UNCHANGED <<block, nodeVars, taskVars, dhtVars, chainVars, histVars,
                   predVars, authVars, wrapVars, bootVars, srvVars, vsrVars, aggVars, jacVars, limVars>>

SigNext ==
    \/ SigNewRecord
    \/ SigSignValue
    \/ SigForge
    \/ SigTamper
    \/ SigValidate
    \/ SwarmStore
    \/ SwarmShutdown

SigSpec == SigInit /\ [][SigNext]_vars

(* C17: validate accepts a record exactly when its key and subkey carry no  *)
(* owner tag, or all their owner tags name one public key P and the value   *)
(* carries exactly one signature tag, a signature under P of (key, subkey,  *)
(* value without signature tags, expiration_time).  So a record signed by   *)
(* its owner and left as signed is accepted, and a protected record whose   *)
(* last signature was followed by a change of the value or of the           *)
(* expiration time, or was made with a key that is not the owner's, or      *)
(* whose owner tags differ, is rejected.                                    *)
C17_ValidateIff ==
    (swarm.mode = "validator" /\ swarm.verdict # "none") =>
        LET record == Get(swarm.record)
            made == swarm.provenance
            owners == {record.key[i] : i \in DOMAIN record.key}
                      \cup {record.subkey[i] : i \in DOMAIN record.subkey}
            content == <<record.key, record.subkey,
                         [payload |-> record.value.payload, sigs |-> <<>>],
                         record.expiration_time>>
            signed_by(P) == /\ Len(record.value.sigs) = 1
                            /\ record.value.sigs[1] = [signer |-> P, message |-> content]
            intact == /\ record.value.payload = made.payload
                      /\ record.expiration_time = made.expiration_time
                      /\ Len(record.value.sigs) = 1
        IN /\ (swarm.verdict = "accept") <=>
                (owners = {} \/ \E P \in Keypairs : owners = {P} /\ signed_by(P))
           /\ (owners = {made.signer} /\ made.clean /\ intact) => swarm.verdict = "accept"
           /\ (owners # {} /\ made.signer # 0
                 /\ (\/ record.value.payload # made.payload
                     \/ record.expiration_time # made.expiration_time
                     \/ owners # {made.signer}))
                => swarm.verdict = "reject"

(* C17 witness: both verdicts occur on protected records that were signed:  *)
(* here an owner-signed record whose expiration time was changed afterwards *)
(* has been rejected.                                                       *)
C17_Witness ==
    /\ swarm.mode = "validator"
    /\ swarm.verdict = "reject"
    /\ Get(swarm.record).subkey = <<Owner>>
    /\ Get(swarm.record).key = <<>>
    /\ swarm.provenance.signer = Owner
    /\ swarm.provenance.clean
    /\ Len(Get(swarm.record).value.sigs) = 1
    /\ Get(swarm.record).value.payload = swarm.provenance.payload
    /\ Get(swarm.record).expiration_time # swarm.provenance.expiration_time

----------------------------------------------------------------------------
(* StartSpec: the consensus process from _main_loop to its first pass      *)
(* through run_consensus (run_activate_subnet, run_is_node_validator, the  *)
(* head of run_forever), the chain's record of the subnet and of the node, *)
(* and the parent process that calls Consensus.shutdown().                 *)
StartBlocks == {0, 7, 19}
NoEpoch == 0 - 2        \* last_epoch = None

(* get_epoch_data: the chain's epoch, which does not depend on the slot.   *)
ChainEpoch(b) == b \div EpochLen
chain_blocks_remaining(b) == EpochLen - (b % EpochLen)

max_errors == 3

(* SubnetNodeClass, in ascending order.                                    *)
NodeClasses == <<"Registered", "Idle", "Included", "Validator">>
ClassValue(c) == CHOOSE i \in DOMAIN NodeClasses : NodeClasses[i] = c

(* get_min_class_subnet_nodes_formatted lists the node.                    *)
min_class_reached(node_class, min_class) == ClassValue(node_class) >= ClassValue(min_class)

StartInit ==
    /\ block \in StartBlocks
    /\ pc = "run_activate_subnet" /\ ret = "run_activate_subnet" /\ wake = block
    /\ stop = FALSE
    /\ started = FALSE /\ last_epoch = 0 - 1 /\ cur = 0
    /\ epoch_scores = [e \in EpochDom |-> None]
    /\ consensus_data = None
    /\ latest_task_commit = None
    /\ latest_scores_commit = [e \in EpochDom |-> None]
    /\ dht = [f \in Families |-> None]
    /\ tracker = <<>>
    /\ chainValidator = NoneVal
    /\ chainConsensus = None
    /\ doneEpoch = 0 - 1 /\ done = {} /\ lastAct = [epoch |-> 0 - 1, phase |-> 0, nth |-> 0]
    /\ lastAttest = None /\ lastPropose = None
    /\ rc_exit = "none" /\ verdict = "none" /\ raises = 0
    /\ \E node_class \in {NodeClasses[i] : i \in DOMAIN NodeClasses} :
         boot = [state |-> "Registered", node_class |-> node_class,
                 last_epoch |-> NoEpoch, errors_count |-> 0,
                 misses |-> 0, gave_up |-> FALSE, active_seen |-> FALSE,
                 loop_from |-> NoEpoch, joining |-> FALSE, stop_in_wait |-> FALSE]
    /\ IdlePred /\ IdleAuth /\ IdleWrap /\ IdleSig /\ IdleSrv /\ IdleVsr /\ IdleRest

(* The owner activates the subnet on-chain.                                *)
SubnetActivated ==
    /\ boot.state = "Registered"
    /\ pc \notin {"exit", "terminated"}
    /\ boot' = [boot EXCEPT !.state = "Active"]
    /\ UNCHANGED <<block, nodeVars, taskVars, dhtVars, chainVars, histVars,
                   predVars, authVars, wrapVars, sigVars, srvVars, vsrVars, aggVars, jacVars, limVars>>

(* The chain moves the node to the next class.                             *)
NodePromoted ==
    /\ ClassValue(boot.node_class) < Len(NodeClasses)
    /\ pc \notin {"exit", "terminated"}
    /\ boot' = [boot EXCEPT !.node_class = NodeClasses[ClassValue(@) + 1]]
    /\ UNCHANGED <<block, nodeVars, taskVars, dhtVars, chainVars, histVars,
                   predVars, authVars, wrapVars, sigVars, srvVars, vsrVars, aggVars, jacVars, limVars>>

(* run_activate_subnet, one turn of its loop: lines 99-141.  The read of   *)
(* the subnet's record may come back empty.                                *)
RunActivateSubnet ==
    /\ pc = "run_activate_subnet"
    /\ IF stop
       THEN Goto("exit") /\ UNCHANGED <<stop, boot>>
       ELSE IF ChainEpoch(block) = boot.last_epoch
            THEN /\ Sleep(chain_blocks_remaining(block), "run_activate_subnet")
                 /\ UNCHANGED <<stop, boot>>
            ELSE \E missing \in BOOLEAN :
                   IF missing
                   THEN IF boot.errors_count > max_errors
                        THEN /\ stop' = TRUE
                             /\ boot' = [boot EXCEPT !.gave_up = TRUE, !.misses = @ + 1]
                             /\ Goto("exit")
                        ELSE /\ boot' = [boot EXCEPT !.errors_count = @ + 1,
                                                     !.misses = @ + 1,
                                                     !.last_epoch = ChainEpoch(block)]
                             /\ Sleep(chain_blocks_remaining(block), "run_activate_subnet")
                             /\ UNCHANGED stop
                   ELSE IF boot.state = "Active"
                        THEN /\ boot' = [boot EXCEPT !.active_seen = TRUE,
                                                     !.misses = 0,
                                                     !.last_epoch = NoEpoch]
                             /\ Goto("run_is_node_validator")
                             /\ UNCHANGED stop
                        ELSE /\ boot' = [boot EXCEPT !.misses = 0,
                                                     !.last_epoch = ChainEpoch(block)]
                             /\ Sleep(chain_blocks_remaining(block), "run_activate_subnet")
                             /\ UNCHANGED stop
    /\ UNCHANGED <<block, started, last_epoch, cur, epoch_scores, consensus_data,
                   taskVars, dhtVars, chainVars, histVars, predVars, authVars,
                   wrapVars, sigVars, srvVars, vsrVars, aggVars, jacVars, limVars>>

(* run_is_node_validator, one turn of its loop: lines 153-179.  It returns *)
(* True also when the stop event ended the loop, and run_forever follows.  *)
RunIsNodeValidator ==
    /\ pc = "run_is_node_validator"
    /\ IF stop
       THEN /\ Goto("run_forever")
            /\ boot' = [boot EXCEPT !.loop_from = block]
       ELSE IF SubnetEpoch(block) = boot.last_epoch
            THEN /\ Sleep(blocks_remaining(block), "run_is_node_validator")
                 /\ UNCHANGED boot
            ELSE IF min_class_reached(boot.node_class, "Idle")
                 THEN /\ Goto("run_forever")
                      /\ boot' = [boot EXCEPT !.loop_from = block]
                 ELSE /\ boot' = [boot EXCEPT !.last_epoch = SubnetEpoch(block)]
                      /\ Sleep(blocks_remaining(block), "run_is_node_validator")
    /\ UNCHANGED <<block, stop, started, last_epoch, cur, epoch_scores, consensus_data,
                   taskVars, dhtVars, chainVars, histVars, predVars, authVars,
                   wrapVars, sigVars, srvVars, vsrVars, aggVars, jacVars, limVars>>

(* Consensus.shutdown() in the parent, lines 458-461: sets the stop event  *)
(* and starts join(3).                                                     *)
ParentShutdown ==
    /\ ~stop /\ pc \notin {"exit", "terminated"}
    /\ stop' = TRUE
    /\ boot' = [boot EXCEPT !.joining = TRUE,
                            !.stop_in_wait = (pc = "sleep" /\ block < wake)]
    /\ UNCHANGED <<block, pc, ret, wake, started, last_epoch, cur, epoch_scores,
                   consensus_data, taskVars, dhtVars, chainVars, histVars,
                   predVars, authVars, wrapVars, sigVars, srvVars, vsrVars, aggVars, jacVars, limVars>>

(* Lines 462-464: join(3) ran out with the process still alive, the parent *)
(* calls terminate().  Three seconds are less than one block.              *)
JoinTimeout ==
    /\ boot.joining /\ pc = "sleep" /\ block < wake
    /\ pc' = "terminated"
    /\ UNCHANGED <<block, ret, wake, stop, started, last_epoch, cur, epoch_scores,
                   consensus_data, taskVars, dhtVars, chainVars, histVars,
                   predVars, authVars, wrapVars, sigVars, bootVars, srvVars, vsrVars, aggVars, jacVars, limVars>>

(* A new block.  While the parent is in join(3) the process outlives the   *)
(* block only if its sleep ends with it.                                   *)
StartTick ==
    /\ boot.joining => wake = block + 1
    /\ Tick

StartNext ==
    \/ StartTick
    \/ Wake
    \/ SubnetActivated
    \/ NodePromoted
    \/ RunActivateSubnet
    \/ RunIsNodeValidator
    \/ RunForeverTop
    \/ RunConsensus
    \/ ParentShutdown
    \/ JoinTimeout

StartSpec == StartInit /\ [][StartNext]_vars

(* C25: run_activate_subnet gives up (shutdown, returns False) once three  *)
(* consecutive per-epoch reads found no subnet info, and not before.       *)
C25_GivesUpAfterThree ==
    /\ boot.misses >= max_errors => boot.gave_up
    /\ boot.gave_up => boot.misses >= max_errors

(* C26: no consensus step while the subnet has not been seen Active; the   *)
(* first step is taken at a subnet epoch boundary after the epoch in which *)
(* run_forever started.                                                    *)
InConsensusStep == pc \in {"run_consensus", "run_task_commit"} \/ lastAct.epoch # 0 - 1

C26_StartGate ==
    /\ (boot.state = "Registered" \/ ~boot.active_seen) => ~InConsensusStep
    /\ InConsensusStep =>
          /\ blocks_elapsed(block) = 0
          /\ boot.loop_from # NoEpoch
          /\ SubnetEpoch(block) > SubnetEpoch(boot.loop_from)

C26_Witness ==
    /\ pc = "run_consensus" /\ ~stop
    /\ boot.active_seen /\ boot.loop_from # NoEpoch
    /\ blocks_elapsed(boot.loop_from) # 0
    /\ SubnetEpoch(block) = SubnetEpoch(boot.loop_from) + 1

(* C28: a stop event set during a wait for an epoch boundary ends the wait *)
(* before its timeout, and the process is never terminated by force.       *)
C28_ShutdownPreemptsSleep ==
    /\ [](pc # "terminated")
    /\ [][(boot.stop_in_wait /\ pc = "sleep") => block' = block]_vars

----------------------------------------------------------------------------
(* AttestSpec: one pass of run_consensus by a node that run_is_node_       *)
(* validator has let through (class Idle or above), at the boundary of     *)
(* subnet epoch 1.  In epoch 0 its verify-and-score step returned the list *)
(* `verified`; the chain may already have elected the other node, which    *)
(* may already have proposed an empty list.                                *)

(* run_forever, lines 228-229: `if consensus_formatted_scores:` keeps a    *)
(* list that is not empty.                                                 *)
kept_scores(consensus_formatted_scores) ==
    IF consensus_formatted_scores # <<>> THEN Some(consensus_formatted_scores) ELSE None

AttestInit ==
    /\ block = Slot + EpochLen
    /\ pc = "run_consensus" /\ ret = "run_forever" /\ wake = block /\ stop = FALSE
    /\ started = TRUE /\ last_epoch = 0 /\ cur = SubnetEpoch(block)
    /\ \E verified \in ScoreLists :
         /\ epoch_scores = [e \in EpochDom |-> IF e = 0 THEN kept_scores(verified) ELSE None]
         /\ \E node_class \in {c \in {NodeClasses[i] : i \in DOMAIN NodeClasses} :
                                   min_class_reached(c, "Idle")} :
              boot = [state |-> "Active", node_class |-> node_class,
                      last_epoch |-> NoEpoch, errors_count |-> 0,
                      misses |-> 0, gave_up |-> FALSE, active_seen |-> TRUE,
                      loop_from |-> 0, joining |-> FALSE, stop_in_wait |-> FALSE,
                      verified |-> verified]
    /\ consensus_data = None
    /\ latest_task_commit = None
    /\ latest_scores_commit = [e \in EpochDom |-> None]
    /\ dht = [f \in Families |-> None]
    /\ tracker = <<>>
    /\ \E elected \in BOOLEAN, proposed \in BOOLEAN :
         /\ chainValidator = IF elected THEN OtherId ELSE NoneVal
         /\ chainConsensus = IF elected /\ proposed
                             THEN Some(ProposalRecord(OtherId, <<>>, {OtherId}))
                             ELSE None
    /\ doneEpoch = 0 - 1 /\ done = {} /\ lastAct = [epoch |-> 0 - 1, phase |-> 0, nth |-> 0]
    /\ lastAttest = None /\ lastPropose = None
    /\ rc_exit = "none" /\ verdict = "none" /\ raises = 0
    /\ IdlePred /\ IdleAuth /\ IdleWrap /\ IdleSig /\ IdleSrv /\ IdleVsr /\ IdleRest

AttestNext ==
    \/ Tick
    \/ Wake
    \/ Shutdown
    \/ ElectValidator
    \/ OtherPropose
    \/ RunConsensus
    \/ GetValidator
    \/ AttestorLoop

AttestSpec == AttestInit /\ [][AttestNext]_vars

(* C27: a node the chain classes below Validator (Idle or Included) in an  *)
(* epoch calls attest in that epoch never.                                 *)
C27_OnlyValidatorsAttest ==
    (~IsNone(lastAttest) /\ Get(lastAttest).epoch = cur) => boot.node_class = "Validator"

----------------------------------------------------------------------------
(* ServerSpec: a Server (server.py), the ModuleAnnouncerThread its run()   *)
(* starts, and the ModuleHeartbeatThread that publishes server_info under  *)
(* the key `node`.                                                         *)
ServerStates == {"OFFLINE", "JOINING", "ONLINE"}

ServerInit ==
    /\ server = [phase |-> "created", dht_alive |-> TRUE, state |-> "JOINING",
                 announcer |-> "none", hb |-> "none", trigger |-> FALSE,
                 node |-> None, count |-> 0]
    /\ block = 0 /\ tracker = <<>> /\ dht = [f \in Families |-> None]
    /\ IdleNode /\ IdlePred /\ IdleAuth /\ IdleWrap /\ IdleSig /\ IdleBoot /\ IdleVsr /\ IdleRest

ServerStep(next) ==
    /\ server' = next
    /\ UNCHANGED <<clockVars, nodeVars, taskVars, dhtVars, chainVars, histVars,
                   predVars, authVars, wrapVars, sigVars, bootVars, vsrVars, aggVars, jacVars, limVars>>

(* ModuleHeartbeatThread.announce(state).  (Its join after OFFLINE is the  *)
(* caller waiting; the record shows the state it leaves.)                  *)
announce(srv, state) == [srv EXCEPT !.state = state, !.trigger = TRUE]

(* ModuleAnnouncerThread.shutdown(): lines 241-250.  Nothing calls it.     *)
AnnouncerShutdown(srv) == announce(srv, "OFFLINE")

(* Server.run(), lines 158-190: ModuleAnnouncerThread.__init__ sets state  *)
(* JOINING, starts the heartbeat thread and then itself.                   *)
ServerRun ==
    /\ server.phase = "created"
    /\ ServerStep([server EXCEPT !.phase = "running", !.state = "JOINING",
                                 !.hb = "declare", !.announcer = "started"])

(* ModuleAnnouncerThread.run(): lines 237-239.                             *)
AnnouncerRun ==
    /\ server.announcer = "started"
    /\ ServerStep([announce(server, "ONLINE") EXCEPT !.announcer = "done"])

(* ModuleHeartbeatThread.run(), lines 339-373: declare_node_sig and the    *)
(* test for OFFLINE.  The store may be refused; on a DHT that has been     *)
(* shut down nothing is stored and the call raises or never returns.       *)
HeartbeatDeclare ==
    /\ server.hb = "declare"
    /\ IF server.dht_alive
       THEN \E ok \in BOOLEAN :
              ServerStep([server EXCEPT
                  !.node = IF ok THEN Some(server.state) ELSE @,
                  !.count = IF ok THEN @ + 1 ELSE @,
                  !.hb = IF server.state = "OFFLINE" THEN "exited" ELSE "wait"])
       ELSE \E outcome \in {"raised", "blocked"} :
              ServerStep([server EXCEPT !.hb = outcome])

(* Lines 390-396: trigger.wait(delay) ends, by the trigger or by the       *)
(* timeout, and the trigger is cleared.                                    *)
HeartbeatWait ==
    /\ server.hb = "wait"
    /\ server.count < MaxBeats
    /\ ServerStep([server EXCEPT !.hb = "declare", !.trigger = FALSE])

(* Server.shutdown(), lines 192-203: stop, protocol, reachability          *)
(* protocol, consensus.  It does not touch the announcer.                  *)
ServerShutdown ==
    /\ server.phase = "running"
    /\ ServerStep([server EXCEPT !.phase = "stopping"])

(* Server.shutdown(), lines 205-206: dht.shutdown() and dht.join().  An    *)
(* announce(OFFLINE) made before has waited for the heartbeat thread, at   *)
(* most five seconds.                                                      *)
ServerShutdownDht ==
    /\ server.phase = "stopping"
    /\ ServerStep([server EXCEPT !.phase = "shut", !.dht_alive = FALSE])

ServerNext ==
    \/ ServerRun
    \/ AnnouncerRun
    \/ HeartbeatDeclare
    \/ HeartbeatWait
    \/ ServerShutdown
    \/ ServerShutdownDht

ServerSpec == ServerInit /\ [][ServerNext]_vars

(* C29: once Server.shutdown() has completed, the last record published   *)
(* under `node` carries OFFLINE, the heartbeat thread has exited, and      *)
(* nothing is published afterwards.                                        *)
C29_OfflineOnShutdown ==
    /\ [](server.phase = "shut" =>
            (server.node = Some("OFFLINE") /\ server.hb = "exited"))
    /\ [][server.phase = "shut" => server.count' = server.count]_vars

----------------------------------------------------------------------------
(* RevealSpec: one call of TaskCommitReveal.verify_score_reveals           *)
(* (task.py 225-309) on the score commits and reveals found in the DHT,    *)
(* the node table and the consensus data the chain holds for the epoch     *)
(* two before.                                                             *)
VsrPeers == 1..3                    \* peers, and the node ids they may have
VsrScores == {<<Entry(SelfId)>>, <<Entry(SelfId), Entry(OtherId)>>}
MIN_ATTESTATION_RATIO == 66         \* 0.66, in hundredths

VsrConsensus ==
    {None} \cup
    { Some([attests |-> SetToSeq(a), subnet_nodes |-> n, data |-> d]) :
        a \in SUBSET VsrPeers, n \in {1..2, 1..3}, d \in VsrScores }

VsrWellFormed(cd) == IsNone(cd) \/ ToSet(Get(cd).attests) \subseteq Get(cd).subnet_nodes

VsrReveals == {None} \cup {Some([salt |-> MaxSalt, bytes |-> Pickle(x)]) : x \in VsrScores}

(* A stored digest: that of some reveal, or of a reveal with another salt. *)
VsrCommits ==
    {None} \cup {Some(Digest(MaxSalt + k, Pickle(x))) : x \in VsrScores, k \in {0, 1}}

(* get_attestation_ratio(cd) < 0.66, on len(attests) / len(subnet_nodes).  *)
attestation_ratio_below(cd, hundredths) ==
    Len(cd.attests) * 100 < hundredths * Cardinality(cd.subnet_nodes)

(* get_peers_node_id: the node id of a listed peer, None otherwise.        *)
get_peers_node_id(peer_id, included_nodes) ==
    IF peer_id \in included_nodes THEN peer_id ELSE NoneVal

(* Lines 258-291, one reveal: is it taken into `results`?  A missing       *)
(* commit raises inside the try and the reveal is skipped.                 *)
reveal_counted(peer_id, commit_records, reveal_records, included_nodes, cd) ==
    /\ ~IsNone(reveal_records[peer_id])
    /\ did_node_attest(get_peers_node_id(peer_id, included_nodes), cd)
    /\ ~IsNone(commit_records[peer_id])
    /\ Get(commit_records[peer_id]) =
          Digest(Get(reveal_records[peer_id]).salt, Get(reveal_records[peer_id]).bytes)

(* pickle.loads                                                            *)
Unpickle(bytes) == bytes[2]

(* verify_score_reveals: [status, scores], scores mapping the counted      *)
(* peers to compare_consensus_data in thousandths.                         *)
verify_score_reveals(commit_records, reveal_records, included_nodes, consensus_data_) ==
    LET no_reveals == \A p \in VsrPeers : IsNone(reveal_records[p])
        no_commits == \A p \in VsrPeers : IsNone(commit_records[p])
        none == [status |-> "none", scores |-> <<>>]
    IN  IF no_reveals /\ no_commits THEN none
        ELSE IF IsNone(consensus_data_) THEN none
        ELSE IF attestation_ratio_below(Get(consensus_data_), MIN_ATTESTATION_RATIO) THEN none
        ELSE IF no_reveals
        THEN [status |-> "raised", scores |-> <<>>]     \* `{}.value`, line 258
        ELSE LET cd == Get(consensus_data_)
                 results == {p \in VsrPeers :
                               reveal_counted(p, commit_records, reveal_records,
                                              included_nodes, cd)}
             IN  [status |-> "scores",
                  scores |-> [p \in results |->
                                compare_consensus_data(
                                    Unpickle(Get(reveal_records[p]).bytes), cd.data)]]

RevealInit ==
    /\ \E commit_records \in [VsrPeers -> VsrCommits],
          reveal_records \in [VsrPeers -> VsrReveals],
          included_nodes \in SUBSET VsrPeers,
          consensus_data_ \in {cd \in VsrConsensus : VsrWellFormed(cd)} :
         vsr = [commit_records |-> commit_records, reveal_records |-> reveal_records,
                included_nodes |-> included_nodes, consensus_data |-> consensus_data_,
                status |-> "input", scores |-> <<>>]
    /\ block = 0 /\ tracker = <<>> /\ dht = [f \in Families |-> None]
    /\ IdleNode /\ IdlePred /\ IdleAuth /\ IdleWrap /\ IdleSig /\ IdleBoot /\ IdleSrv /\ IdleRest

VerifyScoreReveals ==
    /\ vsr.status = "input"
    /\ LET r == verify_score_reveals(vsr.commit_records, vsr.reveal_records,
                                     vsr.included_nodes, vsr.consensus_data)
       IN  vsr' = [vsr EXCEPT !.status = r.status, !.scores = r.scores]
    /\ UNCHANGED <<clockVars, nodeVars, taskVars, dhtVars, chainVars, histVars,
                   predVars, authVars, wrapVars, sigVars, bootVars, srvVars, aggVars, jacVars, limVars>>

RevealNext == VerifyScoreReveals

RevealSpec == RevealInit /\ [][RevealNext]_vars

(* C30: a reveal is counted only from a listed node that attested in the   *)
(* consensus data, and only when at least 0.66 of the subnet's nodes       *)
(* attested; below that no scores are returned.                            *)
C30_OnlyAttestorsCounted ==
    vsr.status = "scores" =>
        /\ ~IsNone(vsr.consensus_data)
        /\ Cardinality(ToSet(Get(vsr.consensus_data).attests)) * 100
              >= 66 * Cardinality(Get(vsr.consensus_data).subnet_nodes)
        /\ \A p \in DOMAIN vsr.scores :
              /\ p \in vsr.included_nodes
              /\ p \in ToSet(Get(vsr.consensus_data).attests)

C30_Witness ==
    /\ vsr.status = "scores"
    /\ DOMAIN vsr.scores # {}
    /\ Cardinality(ToSet(Get(vsr.consensus_data).attests)) = 2
    /\ \E p \in VsrPeers \ DOMAIN vsr.scores :
          /\ ~IsNone(vsr.reveal_records[p]) /\ ~IsNone(vsr.commit_records[p])
          /\ Get(vsr.commit_records[p]) =
                Digest(Get(vsr.reveal_records[p]).salt, Get(vsr.reveal_records[p]).bytes)
          /\ p \notin ToSet(Get(vsr.consensus_data).attests)

----------------------------------------------------------------------------
(* ScoreSpec: the aggregation of verify_and_score_peers (task.py 374-402)  *)
(* on `results`, the verified lists of MathData of up to three verifiers.  *)
(* A task score is 1.0 or 0.0 (task.py 111).  Errors are kept in 36ths     *)
(* (a mean is over one, two or three scores), and a validator score as the *)
(* exact fraction num/den in units of 1/(9 * 10^8), in which EPSILON is 9. *)
Verifiers == 1..3
Provers == 1..MaxProvers
TaskScores == {0, 1}
NoScore == 0 - 1                    \* the list has no entry for the peer
ErrorUnit == 25000000               \* one 36th, in units of 1/(9 * 10^8)
EPSILON == 9                        \* 1e-8, in units of 1/(9 * 10^8)
BASE_VALIDATOR_SCORE == 1

RoundScores == [Provers -> TaskScores \cup {NoScore}]
AggResults == [Verifiers -> {None} \cup {Some(l) : l \in RoundScores}]

RECURSIVE SumOver(_, _)
SumOver(f, S) ==
    IF S = {} THEN 0
    ELSE LET x == CHOOSE y \in S : TRUE IN f[x] + SumOver(f, S \ {x})

MaxOver(f, S, default) ==
    IF S = {} THEN default ELSE CHOOSE m \in {f[x] : x \in S} : \A x \in S : f[x] <= m

(* results.keys()                                                          *)
Scoring(results) == {v \in Verifiers : ~IsNone(results[v])}

(* Step 1, peer_scores[peer]: who scored the peer, and the scores' sum.    *)
ScoredBy(results, p) == {v \in Scoring(results) : Get(results[v])[p] # NoScore}
peer_scores_sum(results, p) ==
    SumOver([v \in Verifiers |-> IF v \in ScoredBy(results, p)
                                 THEN Get(results[v])[p] ELSE 0], Verifiers)

(* Step 2, peer_means: statistics.mean, as the fraction sum/n.             *)
peer_means(results) ==
    [p \in {q \in Provers : ScoredBy(results, q) # {}} |->
        [sum |-> peer_scores_sum(results, p), n |-> Cardinality(ScoredBy(results, p))]]

(* (score - mean) ** 2 in 36ths: (n * score - sum)^2 * 36 / n^2.           *)
squared_error(score, mean) ==
    ((mean.n * score - mean.sum) * (mean.n * score - mean.sum) * 36) \div (mean.n * mean.n)

(* Step 3, validator_errors.                                               *)
validator_errors(results) ==
    [v \in Scoring(results) |->
        SumOver([p \in Provers |->
                    IF v \in ScoredBy(results, p)
                    THEN squared_error(Get(results[v])[p], peer_means(results)[p])
                    ELSE 0], Provers)]

(* A normalisation that leaves every verifier at the base score.           *)
validator_scores_base(results) ==
    [v \in Scoring(results) |-> [num |-> BASE_VALIDATOR_SCORE, den |-> 1]]

(* Step 4: max(BASE_VALIDATOR_SCORE - error / (max_error + EPSILON), 0.0). *)
validator_scores(results) ==
    LET errors == validator_errors(results)
        max_error == MaxOver(errors, Scoring(results), 36)
        den == max_error * ErrorUnit + EPSILON
    IN  [v \in Scoring(results) |->
            LET num == BASE_VALIDATOR_SCORE * den - errors[v] * ErrorUnit
            IN  [num |-> IF num > 0 THEN num ELSE 0, den |-> den]]

ScoreInit ==
    /\ \E results \in AggResults :
         agg = [results |-> results, status |-> "input",
                peer_means |-> <<>>, validator_scores |-> <<>>]
    /\ block = 0 /\ tracker = <<>> /\ dht = [f \in Families |-> None]
    /\ IdleNode /\ IdlePred /\ IdleAuth /\ IdleWrap /\ IdleSig /\ IdleBoot
    /\ IdleSrv /\ IdleVsr /\ IdleJac /\ IdleLim

VerifyAndScorePeers ==
    /\ agg.status = "input"
    /\ agg' = [agg EXCEPT !.status = "scored",
                          !.peer_means = peer_means(agg.results),
                          !.validator_scores = validator_scores(agg.results)]
    /\ UNCHANGED <<clockVars, nodeVars, taskVars, dhtVars, chainVars, histVars,
                   predVars, authVars, wrapVars, sigVars, bootVars, srvVars,
                   vsrVars, jacVars, limVars>>

ScoreNext == VerifyAndScorePeers

ScoreSpec == ScoreInit /\ [][ScoreNext]_vars

(* A validator score num/den is at least a/b (a <= b small), without       *)
(* multiplying the large numbers.                                          *)
ScoreAtLeast(x, a, b) ==
    LET q == x.den \div b
        r == x.den % b
        d == x.num - a * q
    IN  IF d < 0 THEN FALSE ELSE IF d >= a THEN TRUE ELSE b * d >= a * r

ScoreIsOne(x) == x.num = x.den

(* All three verifiers scored every peer.                                  *)
AllReported(results) ==
    \A v \in Verifiers : ~IsNone(results[v]) /\ \A p \in Provers : Get(results[v])[p] # NoScore

Unanimous(results) ==
    AllReported(results) /\ \A v, w \in Verifiers : results[v] = results[w]

(* Verifier o deviates: the other two report the same list, o another.     *)
Deviates(results, o) ==
    /\ AllReported(results)
    /\ \A v, w \in Verifiers \ {o} : results[v] = results[w]
    /\ \E v \in Verifiers \ {o} : results[v] # results[o]

C31_UnanimousPart ==
    (agg.status = "scored" /\ Unanimous(agg.results)) =>
        /\ \A p \in Provers :
              agg.peer_means[p].sum = agg.peer_means[p].n * Get(agg.results[1])[p]
        /\ \A v \in Verifiers : ScoreIsOne(agg.validator_scores[v])

(* C31 as stated: identical reports give the common score as mean and 1.0  *)
(* to every verifier; a single deviating verifier gets less than 1.0 and   *)
(* the two agreeing ones approximately 1.0 (within a hundredth).           *)
C31_OutlierHonestNearOne ==
    /\ C31_UnanimousPart
    /\ \A o \in Verifiers :
          (agg.status = "scored" /\ Deviates(agg.results, o)) =>
              /\ ~ScoreIsOne(agg.validator_scores[o])
              /\ \A v \in Verifiers \ {o} : ScoreAtLeast(agg.validator_scores[v], 99, 100)

(* C31, amended: identical reports give the common score as mean and 1.0   *)
(* to every verifier; a single deviating verifier gets less than 1.0       *)
(* (less than a hundredth) and the two agreeing ones approximately 0.75.   *)
C31_OutlierHonestThreeQuarters ==
    /\ C31_UnanimousPart
    /\ \A o \in Verifiers :
          (agg.status = "scored" /\ Deviates(agg.results, o)) =>
              /\ ~ScoreIsOne(agg.validator_scores[o])
              /\ ~ScoreAtLeast(agg.validator_scores[o], 1, 100)
              /\ \A v \in Verifiers \ {o} :
                    /\ ScoreAtLeast(agg.validator_scores[v], 3, 4)
                    /\ ~ScoreAtLeast(agg.validator_scores[v], 76, 100)

C31_Witness ==
    /\ agg.status = "scored"
    /\ Deviates(agg.results, 3)
    /\ Get(agg.results[1]) # Get(agg.results[3])
    /\ \A p \in Provers : Get(agg.results[3])[p] # Get(agg.results[1])[p]

----------------------------------------------------------------------------
(* JaccardSpec: one call of compare_consensus_data (utils.py 6-21) on two  *)
(* lists of SubnetNodeConsensusData, which may repeat entries.             *)
JacEntries == {[subnet_node_id |-> id, score |-> sc] : id \in NodeIds, sc \in {ScoreOne, 0}}
JacLists == UNION {[1..n -> JacEntries] : n \in 0..MaxList}

JaccardInit ==
    /\ \E my_data \in JacLists, validator_data \in JacLists :
         jac = [my_data |-> my_data, validator_data |-> validator_data,
                status |-> "input", result |-> 0]
    /\ block = 0 /\ tracker = <<>> /\ dht = [f \in Families |-> None]
    /\ IdleNode /\ IdlePred /\ IdleAuth /\ IdleWrap /\ IdleSig /\ IdleBoot
    /\ IdleSrv /\ IdleVsr /\ IdleAgg /\ IdleLim

CompareConsensusData ==
    /\ jac.status = "input"
    /\ jac' = [jac EXCEPT !.status = "returned",
                          !.result = compare_consensus_data(jac.my_data, jac.validator_data)]
    /\ UNCHANGED <<clockVars, nodeVars, taskVars, dhtVars, chainVars, histVars,
                   predVars, authVars, wrapVars, sigVars, bootVars, srvVars,
                   vsrVars, aggVars, limVars>>

JaccardNext == CompareConsensusData

JaccardSpec == JaccardInit /\ [][JaccardNext]_vars

----------------------------------------------------------------------------
(* C33 (AttestSpec): when the elected validator has proposed an empty list *)
(* for the epoch and the node's own scores of the epoch before are an      *)
(* empty list too, the node attests: run_consensus does not return within  *)
(* the attestation window, unstopped, without an attest call of the node.  *)
C33_EmptyScoresAttested ==
    (/\ pc = "run_task_commit" /\ ~stop
     /\ boot.verified = <<>>
     /\ chainValidator = OtherId
     /\ ~IsNone(chainConsensus) /\ Get(chainConsensus).data = <<>>
     /\ cur = SubnetEpoch(block) /\ percent_complete(block) <= ATTEST_DEADLINE)
        => (~IsNone(lastAttest) /\ Get(lastAttest).epoch = cur)

----------------------------------------------------------------------------
(* LimiterSpec: a RateLimitAuthorizer with the default RateLimitConfig and *)
(* the requests of one peer.  Its dictionaries are keyed by peer, so the   *)
(* entries of one peer are the whole state its requests read or write.     *)
(* Times are whole seconds of time.time(); the thresholds, which are       *)
(* multiples of the rate, are in tenths.                                   *)
max_requests_per_second == 10
max_requests_per_minute == 100
max_requests_per_hour == 1000
max_burst == 20
suspicious_threshold == 15
blocking_threshold == 30
ip_ban_threshold == 50
short_window == 1
medium_window == 60
long_window == 3600
temp_block_duration == 300
extended_block_duration == 3600
critical_block_duration == 86400
ip_ban_violation_count == 10
repeated_violations == 5

ThreatLevel == [NORMAL |-> 0, SUSPICIOUS |-> 1, MODERATE |-> 2, HIGH |-> 3, CRITICAL |-> 4]

(* sum(1 for t in requests if t > since)                                   *)
CountSince(requests, since) ==
    Cardinality({i \in DOMAIN requests : requests[i] > since})

(* while requests and requests[0] < cutoff_time: requests.popleft()        *)
RECURSIVE CleanOld(_, _)
CleanOld(requests, cutoff_time) ==
    IF requests # <<>> /\ Head(requests) < cutoff_time
    THEN CleanOld(Tail(requests), cutoff_time)
    ELSE requests

_detect_threat(violation_count, short_count, medium_count, long_count) ==
    LET max_rate == max_requests_per_second
    IN  IF \/ short_count * 10 > max_rate * ip_ban_threshold
           \/ violation_count >= ip_ban_violation_count
        THEN [is_threat |-> TRUE, threat_level |-> ThreatLevel.CRITICAL]
        ELSE IF short_count * 10 > max_rate * blocking_threshold
        THEN [is_threat |-> TRUE, threat_level |-> ThreatLevel.HIGH]
        ELSE IF medium_count >= max_requests_per_minute
        THEN [is_threat |-> TRUE, threat_level |-> ThreatLevel.MODERATE]
        ELSE IF long_count >= max_requests_per_hour
        THEN [is_threat |-> TRUE, threat_level |-> ThreatLevel.MODERATE]
        ELSE IF short_count >= max_burst
        THEN [is_threat |-> TRUE, threat_level |-> ThreatLevel.SUSPICIOUS]
        ELSE IF short_count * 10 > max_rate * suspicious_threshold
        THEN [is_threat |-> TRUE, threat_level |-> ThreatLevel.SUSPICIOUS]
        ELSE [is_threat |-> FALSE, threat_level |-> ThreatLevel.NORMAL]

_block_peer(lim, duration) ==
    [lim EXCEPT !.blocked_peers = Some(lim.now + duration)]

(* _handle_threat with ip banning disabled (the default).                  *)
_handle_threat(lim, threat_level) ==
    LET counted == [lim EXCEPT
                      !.peer_threat_levels =
                          IF threat_level > @ THEN threat_level ELSE @,
                      !.violation_counts = @ + 1]
    IN  IF threat_level = ThreatLevel.MODERATE
        THEN _block_peer(counted, temp_block_duration)
        ELSE IF threat_level = ThreatLevel.HIGH
        THEN _block_peer(counted, extended_block_duration)
        ELSE IF threat_level = ThreatLevel.CRITICAL
        THEN _block_peer(counted, critical_block_duration)
        ELSE counted

_record_violation(lim) ==
    LET counted == [lim EXCEPT !.violation_counts = @ + 1]
    IN  IF counted.violation_counts >= repeated_violations
        THEN _handle_threat(counted, ThreatLevel.SUSPICIOUS)
        ELSE counted

(* The peer is in blocked_peers and its unblock time has not come.         *)
IsBlocked(lim) ==
    ~IsNone(lim.blocked_peers) /\ lim.now < Get(lim.blocked_peers)

(* _check_rate_limit: whether the request is allowed, and the limiter it   *)
(* leaves.                                                                 *)
_check_rate_limit(lim) ==
    IF IsBlocked(lim)
    THEN [is_allowed |-> FALSE, lim |-> lim]
    ELSE LET current_time == lim.now
             requests == CleanOld(lim.peer_requests, current_time - long_window)
             cleaned == [lim EXCEPT !.blocked_peers = None, !.peer_requests = requests]
             short_count == CountSince(requests, current_time - short_window)
             medium_count == CountSince(requests, current_time - medium_window)
             long_count == Len(requests)
             threat == _detect_threat(lim.violation_counts, short_count,
                                      medium_count, long_count)
         IN  IF threat.is_threat
             THEN [is_allowed |-> FALSE,
                   lim |-> _handle_threat(cleaned, threat.threat_level)]
             ELSE [is_allowed |-> TRUE,
                   lim |-> [cleaned EXCEPT !.peer_requests = Append(@, current_time)]]

(* validate_request: is_valid is the inner authorizer's verdict, asked for *)
(* only when the rate check allows the request.                            *)
limiter_validate_request(lim, is_valid) ==
    LET checked == _check_rate_limit(lim)
        was_blocked == IsBlocked(lim)
    IN  IF ~checked.is_allowed
        THEN [_record_violation(checked.lim) EXCEPT
                !.last = Some([result |-> FALSE, is_allowed |-> FALSE,
                               inner |-> FALSE, was_blocked |-> was_blocked])]
        ELSE IF ~is_valid
        THEN [_record_violation(checked.lim) EXCEPT
                !.last = Some([result |-> FALSE, is_allowed |-> TRUE,
                               inner |-> TRUE, was_blocked |-> was_blocked])]
        ELSE [checked.lim EXCEPT
                !.last = Some([result |-> TRUE, is_allowed |-> TRUE,
                               inner |-> TRUE, was_blocked |-> was_blocked])]

LimiterInit ==
    /\ limiter = [now |-> 0, peer_requests |-> <<>>, blocked_peers |-> None,
                  violation_counts |-> 0, peer_threat_levels |-> ThreatLevel.NORMAL,
                  last |-> None]
    /\ block = 0 /\ tracker = <<>> /\ dht = [f \in Families |-> None]
    /\ IdleNode /\ IdlePred /\ IdleAuth /\ IdleWrap /\ IdleSig /\ IdleBoot
    /\ IdleSrv /\ IdleVsr /\ IdleAgg /\ IdleJac

LimiterUnchanged ==
    UNCHANGED <<clockVars, nodeVars, taskVars, dhtVars, chainVars, histVars,
                predVars, authVars, wrapVars, sigVars, bootVars, srvVars,
                vsrVars, aggVars, jacVars>>

(* A request of the peer is validated.                                     *)
LimiterValidateRequest ==
    /\ limiter.violation_counts + 3 <= MaxViolations
    /\ \E is_valid \in BOOLEAN :
         limiter' = limiter_validate_request(limiter, is_valid)
    /\ LimiterUnchanged

(* A second passes.                                                        *)
LimiterTick ==
    /\ limiter.now % critical_block_duration < MaxLimTicks
    /\ limiter' = [limiter EXCEPT !.now = @ + 1]
    /\ LimiterUnchanged

(* No request comes for the time of the longest block.                     *)
LimiterLeap ==
    /\ limiter.now < critical_block_duration
    /\ limiter' = [limiter EXCEPT !.now = @ + critical_block_duration]
    /\ LimiterUnchanged

LimiterNext == LimiterValidateRequest \/ LimiterTick \/ LimiterLeap

LimiterSpec == LimiterInit /\ [][LimiterNext]_vars

(* Requests that passed the rate check in the window of short_window       *)
(* seconds that ends at time t.                                            *)
PassedInWindow(t) ==
    Cardinality({i \in DOMAIN limiter.peer_requests :
                    /\ limiter.peer_requests[i] > t - short_window
                    /\ limiter.peer_requests[i] <= t})

C40_RateBounded ==
    \A t \in 0..limiter.now : PassedInWindow(t) <= max_requests_per_second

C40_BlockedRejected ==
    (~IsNone(limiter.last) /\ Get(limiter.last).was_blocked)
        => (~Get(limiter.last).result /\ ~Get(limiter.last).inner)

(* C40: for the peer, the requests that passed the rate check within any   *)
(* window of short_window seconds are never more than                      *)
(* max_requests_per_second; and while the peer is blocked every request of *)
(* it is rejected without the inner authorizer being consulted.            *)
C40_RateLimit == C40_RateBounded /\ C40_BlockedRejected

====
